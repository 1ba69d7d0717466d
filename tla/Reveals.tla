-------------------------------- MODULE Reveals -------------------------------
(***************************************************************************)
(* The attestation phase: a participant attests a reveal handed to the     *)
(* provider (AttestUploaded) or publishes it (AttestReveal), and the       *)
(* provider, or anyone once remediation is open, uploads batches of the    *)
(* reveals attested (UploadReveals).                                       *)
(***************************************************************************)
EXTENDS RoundState

(* Mutant: a participant may attest again.                                 *)
MayAttestAgain(w, vote) ==
  HasTickets(w) /\ InUploadPhase /\ vote \in 1..MaxWinners

(* The guards AttestUploaded and AttestReveal share.                       *)
MayAttest(w, vote) ==
  /\ HasTickets(w)
  /\ ~participant[w].attested_uploaded
  /\ InUploadPhase
  /\ vote \in 1..MaxWinners

(* set_vote_number_of_winners overwrites the whole word, so it lowers the  *)
(* flag bits kept in it; attest_upload stamps the attestation.             *)
VoteAndAttest(account, vote) ==
  [ account EXCEPT !.voted_winners     = vote,
                   !.reveal_included   = FALSE,
                   !.refund_claimed    = FALSE,
                   !.attested_uploaded = TRUE,
                   !.attested_at_unix  = now ]

StartOfSettlement(begun) ==
  IF begun /\ lottery.settlement_start_unix = 0
  THEN now
  ELSE lottery.settlement_start_unix

AttestUploaded(w, vote) ==
  LET attested == lottery.attested_count + 1
  IN  /\ MayAttest(w, vote)
      /\ participant' = [participant EXCEPT ![w] = VoteAndAttest(@, vote)]
      /\ lottery' = [lottery EXCEPT
           !.attested_count        = attested,
           !.settlement_start_unix = StartOfSettlement(AllAttested(attested))]
      /\ UNCHANGED <<now, tally, root, pages, vault, received>>

(* The tally an instruction works on: the account, or a new one.           *)
OpenTally == IF tally.created THEN tally ELSE NewTally(MaxWinners)

AttestReveal(w, vote) ==
  LET attested == lottery.attested_count + 1
      uploaded == lottery.provider_uploaded_count + 1
      voted    == [AddVote(OpenTally, vote, participant[w].tickets_bought, now)
                     EXCEPT !.processed = @ + 1]
      chosen   == SelectedWinners(voted, lottery.participants_count)
  IN  /\ MayAttest(w, vote)
      /\ ~participant[w].reveal_included
      /\ OpenTally.max_winners = MaxWinners
      /\ lottery.participants_count > 1 => SelectableWinners(chosen)
      /\ participant' = [participant EXCEPT
           ![w] = [VoteAndAttest(@, vote) EXCEPT !.reveal_included = TRUE]]
      /\ tally' = voted
      /\ lottery' = [lottery EXCEPT
           !.attested_count          = attested,
           !.provider_uploaded_count = uploaded,
           !.poc_aggregate_hash      = SymDiff(@, {w}),
           !.selected_number_of_winners =
               IF lottery.participants_count > 1 THEN chosen ELSE @,
           !.settlement_start_unix   = StartOfSettlement(AllAttested(attested)),
           !.uploads_complete        =
               \/ @
               \/ uploaded >= attested /\ (AllAttested(attested) \/ UploadElapsed)]
      /\ UNCHANGED <<now, root, pages, vault, received>>

(***************************************************************************)
(* UploadReveals.                                                          *)
(***************************************************************************)
Voters(S, count) == { w \in S : participant[w].voted_winners = count }

(* Mutant: a vote counts from its upload, not from its attestation.        *)
AddVotesOnArrival(account, S) ==
  [ account EXCEPT
      !.processed  = @ + Cardinality(S),
      !.weights    = [c \in DOMAIN @ |-> @[c] + TicketsOf(Voters(S, c))],
      !.first_seen = [c \in DOMAIN @ |->
                        IF Voters(S, c) = {} THEN @[c] ELSE AtMost(@[c], now)] ]

(* The votes of a whole batch, added one after the other.                  *)
AddVotes(account, S) ==
  [ account EXCEPT
      !.processed  = @ + Cardinality(S),
      !.weights    = [c \in DOMAIN @ |-> @[c] + TicketsOf(Voters(S, c))],
      !.first_seen = [c \in DOMAIN @ |->
                        Min({@[c]} \cup { participant[w].attested_at_unix :
                                            w \in Voters(S, c) })] ]

(* Mutant: only the upload that opens remediation is let in.               *)
CanRemediateOnce(byAuthority) ==
  /\ ~byAuthority /\ UploadElapsed /\ MissingAttestedReveals
  /\ lottery.remediation_start_unix = 0

CanRemediate(byAuthority) ==
  ~byAuthority /\ UploadElapsed /\ MissingAttestedReveals /\ ~RemediationExpired

(* The guards of UploadReveals.  The batch S may be empty; no participant  *)
(* may be in it twice.                                                     *)
MayUpload(byAuthority, S) ==
  /\ ~RemediationExpired
  /\ byAuthority \/ CanRemediate(byAuthority)
  /\ ~lottery.settled /\ ~lottery.settlement_complete /\ ~lottery.uploads_complete
  /\ \/ UploadElapsed
     \/ AllAttested(lottery.attested_count)
     \/ lottery.settlement_start_unix # 0
  /\ lottery.attested_count # 0
  /\ OpenTally.max_winners = MaxWinners
  /\ \A w \in S : /\ Exists(w)
                  /\ participant[w].attested_uploaded
                  /\ ~participant[w].reveal_included
  /\ SelectableWinners(SelectedWinners(AddVotes(OpenTally, S), lottery.participants_count))

UploadReveals(byAuthority, S) ==
  LET voted    == AddVotes(OpenTally, S)
      chosen   == SelectedWinners(voted, lottery.participants_count)
      uploaded == lottery.provider_uploaded_count + Cardinality(S)
  IN  /\ MayUpload(byAuthority, S)
      /\ participant' = [w \in Wallet |->
           IF w \in S
           THEN [participant[w] EXCEPT !.reveal_included = TRUE]
           ELSE participant[w]]
      /\ tally' = voted
      /\ lottery' = [BeginRemediation(lottery, CanRemediate(byAuthority)) EXCEPT
           !.provider_uploaded_count    = uploaded,
           !.uploads_complete           = uploaded >= lottery.attested_count,
           !.poc_aggregate_hash         = SymDiff(@, S),
           !.selected_number_of_winners = chosen,
           !.settlement_start_unix      = StartOfSettlement(TRUE)]
      /\ UNCHANGED <<now, root, pages, vault, received>>
===============================================================================
