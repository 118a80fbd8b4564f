------------------------------ MODULE Mailbox ------------------------------
(***************************************************************************)
(* What the queue of a session promises, without an order, windows, modes  *)
(* or tasks: a message that was accepted waits until it is handed to the   *)
(* agent, in a batch, once, or is interrupted away; a batch comes to one   *)
(* end, once.  Only messages of gRPC clients are lost, and only where text *)
(* waits with something else.                                              *)
(***************************************************************************)
CONSTANTS Messages, TextMessages

VARIABLES
    accepted,
    remote,     \* those of the accepted messages that gRPC clients sent
    waiting,
    dropped,    \* interrupted away, or by the shutdown
    batches     \* what was handed over: the messages, and how it went

mail == <<accepted, remote, waiting, dropped, batches>>

Ends == {"answered", "failed", "cancelled"}

Init == /\ accepted = {} /\ remote = {} /\ waiting = {} /\ dropped = {}
        /\ batches = {}

\* What may get lost between the messages that wait.
MayLose(L) == L # {} => L \subseteq remote /\ ~(waiting \subseteq TextMessages)

\* A message comes in; with it others may go, in one of the two ways.
Accept(m) ==
    /\ m \notin accepted
    /\ accepted' = accepted \cup {m}
    /\ remote' \in {remote, remote \cup {m}}
    /\ \E D \in SUBSET waiting, L \in SUBSET waiting :
          /\ MayLose(L) /\ (D = {} \/ L = {})
          /\ waiting' = (waiting \ (D \cup L)) \cup {m}
          /\ dropped' = dropped \cup D
    /\ UNCHANGED batches

Drop == /\ \E D \in SUBSET waiting :
              waiting' = waiting \ D /\ dropped' = dropped \cup D
        /\ UNCHANGED <<accepted, remote, batches>>

HandOver ==
    /\ \E B \in SUBSET waiting, L \in SUBSET waiting :
          /\ B # {} /\ B \cap L = {} /\ MayLose(L)
          /\ waiting' = waiting \ (B \cup L)
          /\ batches' = batches \cup {[messages |-> B, at |-> "running"]}
    /\ UNCHANGED <<accepted, remote, dropped>>

Finish(b) ==
    /\ b.at = "running"
    /\ \E end \in Ends : batches' = (batches \ {b}) \cup {[messages |-> b.messages, at |-> end]}
    /\ UNCHANGED <<accepted, remote, waiting, dropped>>

Next == \/ \E m \in Messages : Accept(m)
        \/ Drop \/ HandOver
        \/ \E b \in batches : Finish(b)

Spec == Init /\ [][Next]_mail
=============================================================================
