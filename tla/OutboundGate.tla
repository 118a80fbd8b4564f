---------------------------- MODULE OutboundGate ----------------------------
(***************************************************************************)
(* gateway/outbound.py with its users: the bridge's _on_message handlers   *)
(* (gateway/bridge.py), the telegram_send tool that a running task calls,  *)
(* and the senders that know nothing of a handler (POST /ww/telegram/send, *)
(* pairing notices, direct commands).  Every operation of the gate is one  *)
(* critical section of its module-level lock, hence one action.            *)
(***************************************************************************)
EXTENDS Naturals

CONSTANTS
    Chats,      \* non-empty chat ids
    Handlers    \* concurrent executions of _on_message

VARIABLES
    budgets,   \* _budgets: a function whose domain is the keys of the dict
    busy,      \* keys of _busy
    handler,   \* [Handlers -> where _on_message stands, and for which chat]
    texts      \* history: texts let through to a chat while it is handled

gateVars == <<budgets, busy, handler, texts>>

Idle == [at |-> "idle"]

GateInit ==
    /\ budgets = [c \in {} |-> 0]
    /\ busy = {}
    /\ handler = [h \in Handlers |-> Idle]
    /\ texts = [c \in Chats |-> 0]

\* Handlers between begin_inbound() and end_inbound().
Owning == {"running", "replying", "replied", "silent"}
Owners(c) == {h \in Handlers : handler[h].at \in Owning /\ handler[h].chat = c}

(***************************************************************************)
(* The gate                                                                *)
(***************************************************************************)

Without(f, c) == [x \in DOMAIN f \ {c} |-> f[x]]

\* Mutant of Allowed: off by one.
AllowedOffByOne(c) == c \in DOMAIN budgets => budgets[c] + 1 > 0
\* allow_text_send: no budget, or some of it left.
Allowed(c) == c \in DOMAIN budgets => budgets[c] > 0

\* Mutant of AllowTextSend: the budget is spent twice, for the two paths.
SpendForBothPaths(c) ==
    /\ budgets' = IF c \in DOMAIN budgets THEN [budgets EXCEPT ![c] = @ - 2] ELSE budgets
    /\ texts' = IF Allowed(c) /\ Owners(c) # {} THEN [texts EXCEPT ![c] = @ + 1] ELSE texts

\* allow_text_send(): the check and the decrement are one critical section.
AllowTextSend(c) ==
    /\ budgets' = IF c \in DOMAIN budgets /\ Allowed(c)
                  THEN [budgets EXCEPT ![c] = @ - 1] ELSE budgets
    /\ texts' = IF Allowed(c) /\ Owners(c) # {}
                THEN [texts EXCEPT ![c] = @ + 1] ELSE texts

\* end_inbound()
EndInbound(c) ==
    /\ busy' = busy \ {c}
    /\ budgets' = Without(budgets, c)

(***************************************************************************)
(* gateway/bridge.py: _on_message                                          *)
(***************************************************************************)

\* Mutant of Begin: the chat is opened with a budget of zero.
BeginWithoutBudget(h, c) ==
    /\ handler[h].at = "idle"
    /\ c \notin busy
    /\ busy' = busy \cup {c}
    /\ budgets' = [x \in DOMAIN budgets \cup {c} |-> IF x = c THEN 0 ELSE budgets[x]]
    /\ handler' = [handler EXCEPT ![h] = [at |-> "running", chat |-> c]]
    /\ UNCHANGED texts

\* begin_inbound() found the chat free.
Begin(h, c) ==
    /\ handler[h].at = "idle"
    /\ c \notin busy
    /\ busy' = busy \cup {c}
    /\ budgets' = [x \in DOMAIN budgets \cup {c} |-> IF x = c THEN 1 ELSE budgets[x]]
    /\ handler' = [handler EXCEPT ![h] = [at |-> "running", chat |-> c]]
    /\ UNCHANGED texts

\* begin_inbound() found the chat busy: the message is skipped.
Refused(h, c) ==
    /\ handler[h].at = "idle"
    /\ c \in busy
    /\ handler' = [handler EXCEPT ![h] = [at |-> "refused", chat |-> c]]
    /\ UNCHANGED <<budgets, busy, texts>>

\* Mutant of Skip: the return of a refused handler runs end_inbound() too.
SkipThroughFinally(h) ==
    /\ handler[h].at = "refused"
    /\ EndInbound(handler[h].chat)
    /\ handler' = [handler EXCEPT ![h] = Idle]
    /\ UNCHANGED texts

Skip(h) ==
    /\ handler[h].at = "refused"
    /\ handler' = [handler EXCEPT ![h] = Idle]
    /\ UNCHANGED <<budgets, busy, texts>>

\* The task that the handler runs calls telegram_send, for any chat.
ToolSend(h, c) ==
    /\ handler[h].at = "running"
    /\ AllowTextSend(c)
    /\ UNCHANGED <<busy, handler>>

\* task_handler returned a reply.
Answer(h) ==
    /\ handler[h].at = "running"
    /\ handler' = [handler EXCEPT ![h].at = "replying"]
    /\ UNCHANGED <<budgets, busy, texts>>

\* Mutant of Fail: the exception leaves _on_message without the finally.
FailWithoutFinally(h) ==
    /\ handler[h].at = "running"
    /\ handler' = [handler EXCEPT ![h] = Idle]
    /\ UNCHANGED <<budgets, busy, texts>>

\* task_handler returned nothing, or raised.
Fail(h) ==
    /\ handler[h].at = "running"
    /\ handler' = [handler EXCEPT ![h].at = "silent"]
    /\ UNCHANGED <<budgets, busy, texts>>

\* adapter.send_message() with the reply.
Reply(h) ==
    /\ handler[h].at = "replying"
    /\ AllowTextSend(handler[h].chat)
    /\ handler' = [handler EXCEPT ![h].at = "replied"]
    /\ UNCHANGED busy

\* The finally block.  The history of the window ends with it.
End(h) ==
    /\ handler[h].at \in {"replied", "silent"}
    /\ EndInbound(handler[h].chat)
    /\ texts' = [texts EXCEPT ![handler[h].chat] = 0]
    /\ handler' = [handler EXCEPT ![h] = Idle]

\* A sender outside every handler.
OtherSend(c) ==
    /\ AllowTextSend(c)
    /\ UNCHANGED <<busy, handler>>

-----------------------------------------------------------------------------

\* The steps a handler takes once it has asked for its chat.
Proceed(h) == Skip(h) \/ Answer(h) \/ Fail(h) \/ Reply(h) \/ End(h)

GateNext ==
    \/ \E c \in Chats : OtherSend(c)
    \/ \E h \in Handlers :
          \/ Proceed(h)
          \/ \E c \in Chats : Begin(h, c) \/ Refused(h, c) \/ ToolSend(h, c)

GateSpec == GateInit /\ [][GateNext]_gateVars

\* The handler's thread runs and the task it waits for returns or raises.
FairGateSpec == GateSpec /\ \A h \in Handlers : WF_gateVars(Proceed(h))

-----------------------------------------------------------------------------

\* Budgets exist exactly for the chats being handled and are zero or one.
GateTypeOK ==
    /\ busy \in SUBSET Chats
    /\ budgets \in [busy -> {0, 1}]
    /\ handler \in [Handlers -> {Idle} \cup
                       [at : Owning \cup {"refused"}, chat : Chats]]
    /\ texts \in [Chats -> Nat]

\* A chat is marked busy exactly while one handler owns it; in particular a
\* refused handler neither clears nor shares the mark of the handler it met.
BusyIffOwned ==
    /\ \A c \in Chats : c \in busy <=> Owners(c) # {}
    /\ \A c \in Chats : \A g, h \in Owners(c) : g = h

\* A reply is suppressed only after another text reached the chat in the same
\* window: a handler that had something to say never leaves its user without
\* any answer (gateway/bridge.py: "One user-visible text send per inbound
\* message").
AnsweredInWindow ==
    \A h \in Handlers : handler[h].at = "replied" => texts[handler[h].chat] = 1

\* The gate implements the one-reply promise, with the handlers that own a
\* chat and the texts let through as the abstract window.
Promise == INSTANCE OneReply WITH owners <- [c \in Chats |-> Owners(c)]
OneReplyPerInbound == Promise!Spec

\* No chat stays busy for ever: a later message of the user is never refused
\* for good, even if the task raised.
ChatFreed == \A c \in Chats : c \in busy ~> c \notin busy
=============================================================================
