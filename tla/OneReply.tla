------------------------------ MODULE OneReply ------------------------------
(***************************************************************************)
(* What the outbound gate promises: while an inbound message of a chat is  *)
(* being handled, one handler owns the chat and at most one user-visible   *)
(* text is let through to it, whoever sends it.                            *)
(***************************************************************************)
EXTENDS Naturals

CONSTANTS Chats, Handlers

VARIABLES
    owners,   \* [Chats -> the handlers that own the chat]
    texts     \* [Chats -> texts let through since the chat was opened]

window == <<owners, texts>>

Init == /\ owners = [c \in Chats |-> {}]
        /\ texts = [c \in Chats |-> 0]

Open(h, c) == /\ owners[c] = {}
              /\ owners' = [owners EXCEPT ![c] = {h}]
              /\ UNCHANGED texts

Speak(c) == /\ owners[c] # {}
            /\ texts[c] = 0
            /\ texts' = [texts EXCEPT ![c] = 1]
            /\ UNCHANGED owners

Shut(h, c) == /\ owners[c] = {h}
              /\ owners' = [owners EXCEPT ![c] = {}]
              /\ texts' = [texts EXCEPT ![c] = 0]

Next == \E c \in Chats : Speak(c) \/ \E h \in Handlers : Open(h, c) \/ Shut(h, c)

Spec == Init /\ [][Next]_window
=============================================================================
