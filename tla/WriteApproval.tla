--------------------------- MODULE WriteApproval ---------------------------
(***************************************************************************)
(* What the AI write path promises, one write proposal at a time.          *)
(*                                                                         *)
(* Every proposal has a row in ai_write_audit.  A statement reaches the    *)
(* database only for a proposal that is on record and that the user has    *)
(* approved, and it reaches it at most once.  The status of the row is     *)
(* settled at most once, and a settled status tells the truth: "executed"  *)
(* is only written after the statement has run, "denied" and "cancelled"   *)
(* only for a statement that was never sent.  "failed" is the one status   *)
(* that promises nothing: the answer may be lost after the statement ran,  *)
(* and a statement already on its way may still run afterwards.            *)
(***************************************************************************)
EXTENDS Naturals

CONSTANT Calls              \* the propose_write calls of the model

VARIABLES status,           \* status[c]: the row of ai_write_audit, or "none"
          consent,          \* the proposals the user pressed Execute on
          sent,             \* the proposals whose SQL was handed to the database
          effects           \* effects[c]: how often the SQL of c took effect

avars == <<status, consent, sent, effects>>

Settled == {"executed", "failed", "cancelled", "denied"}
Statuses == {"none", "proposed"} \cup Settled

AInit == /\ status = [c \in Calls |-> "none"]
         /\ consent = {}
         /\ sent = {}
         /\ effects = [c \in Calls |-> 0]

\* A row appears: a proposal the policy refuses is recorded as such at once.
Open(c) == /\ status[c] = "none"
           /\ \E s \in {"proposed", "denied"} : status' = [status EXCEPT ![c] = s]
           /\ UNCHANGED <<consent, sent, effects>>

Approve(c) == /\ status[c] # "none"
              /\ consent' = consent \cup {c}
              /\ UNCHANGED <<status, sent, effects>>

Send(c) == /\ status[c] = "proposed"
           /\ c \in consent \ sent
           /\ sent' = sent \cup {c}
           /\ UNCHANGED <<status, consent, effects>>

TakeEffect(c) == /\ c \in sent
                 /\ status[c] \in {"proposed", "failed"}
                 /\ effects[c] = 0
                 /\ effects' = [effects EXCEPT ![c] = 1]
                 /\ UNCHANGED <<status, consent, sent>>

Settle(c, s) == /\ status[c] = "proposed"
                /\ s = "executed" => effects[c] = 1
                /\ s \in {"cancelled", "denied"} => c \notin sent
                /\ status' = [status EXCEPT ![c] = s]
                /\ UNCHANGED <<consent, sent, effects>>

ANext == \E c \in Calls : \/ Open(c)
                          \/ Approve(c)
                          \/ Send(c)
                          \/ TakeEffect(c)
                          \/ \E s \in Settled : Settle(c, s)

ASpec == AInit /\ [][ANext]_avars
=============================================================================
