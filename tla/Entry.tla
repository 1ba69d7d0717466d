--------------------------------- MODULE Entry --------------------------------
(***************************************************************************)
(* The buy window: tickets are sold (BuyTickets), and the authority may    *)
(* end it early in builds that allow it (BeginRevealNow and                *)
(* BeginRevealPhase, one handler).                                         *)
(***************************************************************************)
EXTENDS RoundState

(* A first purchase opens the account and fixes its index; a later one     *)
(* must repeat the proof of chance or give none, so it changes only the    *)
(* number of tickets.                                                      *)
BuyTickets(w, count) ==
  LET first   == ~Exists(w)
      account == IF first
                 THEN NewParticipant("open", lottery.participants_count)
                 ELSE participant[w]
      cost    == TicketPrice * count
      buyers  == lottery.participants_count + (IF first THEN 1 ELSE 0)
      tickets == account.tickets_bought + count
      total   == lottery.total_tickets + count
      funds   == lottery.total_funds + cost
  IN  /\ count > 0
      /\ ~lottery.settled /\ InBuyWindow
      /\ first => lottery.participants_count < MAX_PARTICIPANTS
      /\ Checked({cost, buyers, tickets, total, funds})
      /\ participant' = [participant EXCEPT
           ![w] = [account EXCEPT !.tickets_bought = tickets]]
      /\ lottery' = [lottery EXCEPT !.participants_count = buyers,
                                    !.total_tickets      = total,
                                    !.total_funds        = funds]
      /\ vault' = vault + cost
      /\ UNCHANGED <<now, tally, root, pages, received>>

OrDefault(secs) == IF secs = 0 THEN ConfigUploadWindow ELSE secs

(* Mutant: attestation ends so long from now, whatever was planned.        *)
AttestationCut(secs) == now + OrDefault(secs)

AttestationEnd(secs) == AtLeast(lottery.upload_deadline_unix, now + OrDefault(secs))

(* mark_uploads_complete stores the hash of no reveals, which is not the   *)
(* hash of any: NoWallet stands for it.                                    *)
BeginReveal(attestationSecs, uploadSecs) ==
  LET attestation == AttestationEnd(attestationSecs)
      deadline    == AtLeast(attestation, attestation + OrDefault(uploadSecs))
      begun       == [lottery EXCEPT !.upload_start_unix    = now,
                                     !.upload_deadline_unix = deadline]
  IN  /\ AllowEarlyUpload
      /\ ~lottery.settled
      /\ ~UploadStarted /\ ~UploadElapsed
      /\ lottery.settlement_start_unix = 0
      /\ ~lottery.uploads_complete /\ ~lottery.settlement_complete
      /\ lottery' = IF lottery.participants_count = 1
                    THEN [begun EXCEPT !.uploads_complete           = TRUE,
                                       !.poc_aggregate_hash         = {NoWallet},
                                       !.selected_number_of_winners = 1]
                    ELSE begun
      /\ UNCHANGED <<now, participant, tally, root, pages, vault, received>>
===============================================================================
