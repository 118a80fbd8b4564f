--------------------------- MODULE Gateway_proof ---------------------------
(***************************************************************************)
(* Proofs about the two gates that a chat message passes.  The first half  *)
(* is about OutboundGate, for any sets of chats and handlers: the gate     *)
(* implements OneReply.  The second half is about Pairing, for any sets of *)
(* users and codes: nobody is let in without an approval.                  *)
(***************************************************************************)
EXTENDS OutboundGate, Pairing, FiniteSetTheorems, TLAPS

\* The budget and the history of a window always add up to the one text a
\* window is worth, which is what makes the promise inductive.
BudgetAccounts ==
    /\ \A c \in busy : budgets[c] + texts[c] = 1
    /\ \A c \in Chats \ busy : texts[c] = 0

GateInv == GateTypeOK /\ BusyIffOwned /\ BudgetAccounts

LEMMA GateStart == GateInit => GateInv
  BY DEF GateInit, GateInv, GateTypeOK, BusyIffOwned, BudgetAccounts, Owners, Owning, Idle

\* A send changes a budget and a history together, or neither.
LEMMA SendKeepsAccounts ==
    ASSUME GateInv, NEW c \in Chats, AllowTextSend(c), busy' = busy
    PROVE  /\ budgets' \in [busy' -> {0, 1}]
           /\ texts' \in [Chats -> Nat]
           /\ BudgetAccounts'
  <1> USE DEF GateInv, GateTypeOK
  <1>1. DOMAIN budgets = busy
    OBVIOUS
  <1>2. CASE c \notin busy
    <2>1. budgets' = budgets /\ texts' = texts
      BY <1>1, <1>2 DEF AllowTextSend, Allowed, BusyIffOwned
    <2> QED
      BY <2>1 DEF BudgetAccounts
  <1>3. CASE c \in busy /\ budgets[c] = 0
    <2>1. ~ Allowed(c)
      BY <1>1, <1>3 DEF Allowed
    <2>2. budgets' = budgets /\ texts' = texts
      BY <2>1 DEF AllowTextSend
    <2> QED
      BY <2>2 DEF BudgetAccounts
  <1>4. CASE c \in busy /\ budgets[c] = 1
    <2>1. Allowed(c) /\ Owners(c) # {}
      BY <1>1, <1>4 DEF Allowed, BusyIffOwned
    <2>2. /\ budgets' = [budgets EXCEPT ![c] = 0]
          /\ texts' = [texts EXCEPT ![c] = texts[c] + 1]
      BY <1>1, <1>4, <2>1 DEF AllowTextSend
    <2>3. texts[c] = 0
      BY <1>4 DEF BudgetAccounts
    <2> QED
      BY <1>4, <2>2, <2>3 DEF BudgetAccounts
  <1> QED
    BY <1>2, <1>3, <1>4

\* Ownership is a matter of the handlers alone.
LEMMA OwnersUnchanged ==
    ASSUME UNCHANGED handler
    PROVE  \A c \in Chats : Owners(c)' = Owners(c)
  BY DEF Owners

\* Which chats a step of one handler takes or gives back.
LEMMA OwnersOfStep ==
    ASSUME GateTypeOK, NEW h \in Handlers, NEW st \in {Idle} \cup
               [at : Owning \cup {"refused"}, chat : Chats],
           handler' = [handler EXCEPT ![h] = st]
    PROVE  \A c \in Chats : Owners(c)' =
              IF st.at \in Owning /\ st.chat = c
              THEN Owners(c) \cup {h} ELSE Owners(c) \ {h}
  BY DEF GateTypeOK, Owners, Owning, Idle

LEMMA GateStep == GateInv /\ [GateNext]_gateVars => GateInv'
  <1> SUFFICES ASSUME GateInv, [GateNext]_gateVars
               PROVE  GateInv'
    OBVIOUS
  <1>0. GateTypeOK /\ BusyIffOwned /\ BudgetAccounts /\ DOMAIN budgets = busy
    BY DEF GateInv, GateTypeOK
  <1>1. ASSUME NEW c \in Chats, AllowTextSend(c), UNCHANGED <<busy, handler>>
        PROVE  GateInv'
    BY <1>1, SendKeepsAccounts, OwnersUnchanged DEF GateInv, GateTypeOK, BusyIffOwned
  <1>2. ASSUME NEW h \in Handlers, NEW c \in Chats, Begin(h, c)
        PROVE  GateInv'
    <2> DEFINE st == [at |-> "running", chat |-> c]
    <2>1. st \in [at : Owning \cup {"refused"}, chat : Chats] /\ st.at \in Owning
      BY DEF Owning
    <2>2. Owners(c) = {} /\ c \notin busy /\ handler[h].at = "idle"
      BY <1>0, <1>2 DEF Begin, BusyIffOwned
    <2>3. \A d \in Chats : Owners(d)' = IF d = c THEN {h} ELSE Owners(d)
      <3>1. \A d \in Chats : Owners(d)' = IF d = c THEN Owners(d) \cup {h}
                                           ELSE Owners(d) \ {h}
        BY <1>0, <1>2, <2>1, OwnersOfStep DEF Begin
      <3>2. \A d \in Chats : h \notin Owners(d)
        BY <2>2 DEF Owners, Owning
      <3> QED
        BY <2>2, <3>1, <3>2
    <2>4. BusyIffOwned'
      BY <1>0, <1>2, <2>3 DEF Begin, BusyIffOwned
    <2>5. GateTypeOK' /\ BudgetAccounts'
      BY <1>0, <1>2, <2>1, <2>2 DEF Begin, GateTypeOK, BudgetAccounts
    <2> QED
      BY <2>4, <2>5 DEF GateInv
  <1>3. ASSUME NEW h \in Handlers, NEW c \in Chats, Refused(h, c)
        PROVE  GateInv'
    <2>1. \A d \in Chats : Owners(d)' = Owners(d)
      BY <1>0, <1>3 DEF Refused, Owners, Owning, GateTypeOK
    <2>2. BusyIffOwned' /\ GateTypeOK' /\ BudgetAccounts'
      BY <1>0, <1>3, <2>1 DEF Refused, BusyIffOwned, GateTypeOK, BudgetAccounts
    <2> QED
      BY <2>2 DEF GateInv
  <1>4. ASSUME NEW h \in Handlers, Skip(h)
        PROVE  GateInv'
    <2>1. \A d \in Chats : Owners(d)' = Owners(d)
      BY <1>0, <1>4 DEF Skip, Owners, Owning, GateTypeOK, Idle
    <2>2. BusyIffOwned' /\ GateTypeOK' /\ BudgetAccounts'
      BY <1>0, <1>4, <2>1 DEF Skip, BusyIffOwned, GateTypeOK, BudgetAccounts
    <2> QED
      BY <2>2 DEF GateInv
  <1>5. ASSUME NEW h \in Handlers, Answer(h) \/ Fail(h)
        PROVE  GateInv'
    <2>1. handler[h] \in [at : Owning \cup {"refused"}, chat : Chats]
      BY <1>0, <1>5 DEF Answer, Fail, GateTypeOK, Idle
    <2>2. \A d \in Chats : Owners(d)' = Owners(d)
      BY <1>0, <1>5, <2>1 DEF Answer, Fail, Owners, Owning, GateTypeOK
    <2>3. handler' \in [Handlers -> {Idle} \cup [at : Owning \cup {"refused"}, chat : Chats]]
      BY <1>0, <1>5, <2>1 DEF Answer, Fail, Owning, GateTypeOK
    <2>4. BusyIffOwned' /\ GateTypeOK' /\ BudgetAccounts'
      BY <1>0, <1>5, <2>2, <2>3 DEF Answer, Fail, BusyIffOwned, GateTypeOK, BudgetAccounts
    <2> QED
      BY <2>4 DEF GateInv
  <1>6. ASSUME NEW h \in Handlers, Reply(h)
        PROVE  GateInv'
    <2>1. handler[h] \in [at : Owning \cup {"refused"}, chat : Chats]
      BY <1>0, <1>6 DEF Reply, GateTypeOK, Idle
    <2>2. \A d \in Chats : Owners(d)' = Owners(d)
      BY <1>0, <1>6, <2>1 DEF Reply, Owners, Owning, GateTypeOK
    <2>3. handler' \in [Handlers -> {Idle} \cup [at : Owning \cup {"refused"}, chat : Chats]]
      BY <1>0, <1>6, <2>1 DEF Reply, Owning, GateTypeOK
    <2>4. /\ budgets' \in [busy' -> {0, 1}]
          /\ texts' \in [Chats -> Nat]
          /\ BudgetAccounts'
      BY <1>6, <2>1, SendKeepsAccounts DEF Reply
    <2> QED
      BY <1>0, <1>6, <2>2, <2>3, <2>4 DEF Reply, GateInv, BusyIffOwned, GateTypeOK
  <1>7. ASSUME NEW h \in Handlers, End(h)
        PROVE  GateInv'
    <2> DEFINE c == handler[h].chat
    <2>1. c \in Chats /\ h \in Owners(c) /\ Idle.at = "idle"
      BY <1>0, <1>7 DEF End, GateTypeOK, Idle, Owners, Owning
    <2>2. Owners(c) = {h} /\ c \in busy
      BY <1>0, <2>1 DEF BusyIffOwned
    <2>3. \A d \in Chats : Owners(d)' = IF d = c THEN {} ELSE Owners(d)
      <3>1. \A d \in Chats : Owners(d)' = Owners(d) \ {h}
        BY <1>0, <1>7, <2>1, OwnersOfStep DEF End, Owning
      <3>2. \A d \in Chats \ {c} : h \notin Owners(d)
        BY DEF Owners
      <3> QED
        BY <2>2, <3>1, <3>2
    <2>4. BusyIffOwned'
      BY <1>0, <1>7, <2>3 DEF End, EndInbound, BusyIffOwned
    <2>5. GateTypeOK' /\ BudgetAccounts'
      BY <1>0, <1>7, <2>1 DEF End, EndInbound, Without, GateTypeOK, BudgetAccounts
    <2> QED
      BY <2>4, <2>5 DEF GateInv
  <1>8. CASE UNCHANGED gateVars
    BY <1>0, <1>8, OwnersUnchanged DEF gateVars, GateInv, GateTypeOK, BusyIffOwned, BudgetAccounts
  <1>9. ASSUME NEW h \in Handlers, NEW c \in Chats, ToolSend(h, c)
        PROVE  GateInv'
    BY <1>1, <1>9 DEF ToolSend
  <1>10. ASSUME NEW c \in Chats, OtherSend(c)
         PROVE  GateInv'
    BY <1>1, <1>10 DEF OtherSend
  <1> QED
    BY <1>2, <1>3, <1>4, <1>5, <1>6, <1>7, <1>8, <1>9, <1>10 DEF GateNext, Proceed

\* Type correctness of the gate under any interleaving of handlers, tools and
\* outside senders.
THEOREM GateTypeCorrect == GateSpec => []GateTypeOK
  <1>1. GateInv => GateTypeOK
    BY DEF GateInv
  <1> QED
    BY <1>1, GateStart, GateStep, PTL DEF GateSpec

\* A chat is busy exactly while a single handler owns it.
THEOREM OwnershipCorrect == GateSpec => []BusyIffOwned
  <1>1. GateInv => BusyIffOwned
    BY DEF GateInv
  <1> QED
    BY <1>1, GateStart, GateStep, PTL DEF GateSpec
-----------------------------------------------------------------------------

\* What a send can do to the history of the windows.
LEMMA SendEffect ==
    ASSUME GateInv, NEW c \in Chats, AllowTextSend(c)
    PROVE  \/ /\ texts' = texts
              /\ c \in busy => texts[c] = 1
           \/ /\ c \in busy
              /\ Owners(c) # {}
              /\ texts[c] = 0
              /\ texts' = [texts EXCEPT ![c] = 1]
  <1> USE DEF GateInv, GateTypeOK
  <1>1. DOMAIN budgets = busy
    OBVIOUS
  <1>2. CASE c \notin busy
    BY <1>1, <1>2 DEF AllowTextSend, BusyIffOwned
  <1>3. CASE c \in busy /\ budgets[c] = 0
    <2>1. ~ Allowed(c) /\ texts[c] = 1
      BY <1>1, <1>3 DEF Allowed, BudgetAccounts
    <2> QED
      BY <2>1 DEF AllowTextSend
  <1>4. CASE c \in busy /\ budgets[c] = 1
    <2>1. Allowed(c) /\ Owners(c) # {} /\ texts[c] = 0
      BY <1>1, <1>4 DEF Allowed, BusyIffOwned, BudgetAccounts
    <2> QED
      BY <1>4, <2>1 DEF AllowTextSend
  <1> QED
    BY <1>2, <1>3, <1>4

\* A handler that has something to say leaves its user with exactly one text
\* in the window, its own or one sent while it ran.
THEOREM AnswersCorrect == GateSpec => []AnsweredInWindow
  <1>1. GateInit => AnsweredInWindow
    BY DEF GateInit, AnsweredInWindow, Idle
  <1>2. GateInv /\ AnsweredInWindow /\ [GateNext]_gateVars => AnsweredInWindow'
    <2> SUFFICES ASSUME GateInv, AnsweredInWindow, [GateNext]_gateVars,
                        NEW g \in Handlers, handler'[g].at = "replied"
                 PROVE  texts'[handler'[g].chat] = 1
      BY DEF AnsweredInWindow
    <2> USE DEF GateInv, GateTypeOK
    <2>1. ASSUME NEW c \in Chats, AllowTextSend(c), UNCHANGED handler
          PROVE  texts'[handler'[g].chat] = 1
      <3>1. handler[g].chat \in Chats /\ texts[handler[g].chat] = 1
        BY <2>1 DEF AnsweredInWindow, Idle
      <3> QED
        BY <2>1, <3>1, SendEffect
    <2>2. ASSUME NEW h \in Handlers, Reply(h)
          PROVE  texts'[handler'[g].chat] = 1
      <3> DEFINE c == handler[h].chat
      <3>1. c \in Chats /\ h \in Owners(c)
        BY <2>2 DEF Reply, Owners, Owning, Idle
      <3>2. c \in busy
        BY <3>1 DEF BusyIffOwned
      <3>3. texts'[c] = 1
        BY <2>2, <3>1, <3>2, SendEffect DEF Reply
      <3>4. CASE g = h
        BY <2>2, <3>3, <3>4 DEF Reply
      <3>5. CASE g # h
        <4>1. handler'[g] = handler[g] /\ handler[g].at = "replied"
          BY <2>2, <3>5 DEF Reply
        <4>2. handler[g].chat \in Chats /\ texts[handler[g].chat] = 1
          BY <4>1 DEF AnsweredInWindow, Idle
        <4> QED
          BY <2>2, <3>1, <4>1, <4>2, SendEffect DEF Reply
      <3> QED
        BY <3>4, <3>5
    <2>3. ASSUME NEW h \in Handlers, End(h)
          PROVE  texts'[handler'[g].chat] = 1
      <3> DEFINE c == handler[h].chat
      <3>1. c \in Chats /\ h \in Owners(c)
        BY <2>3 DEF End, Owners, Owning, Idle
      <3>2. g # h /\ handler'[g] = handler[g]
        BY <2>3 DEF End, Idle
      <3>3. handler[g].chat \in Chats /\ g \in Owners(handler[g].chat)
        BY <3>2 DEF Owners, Owning, Idle
      <3>4. handler[g].chat # c
        BY <3>1, <3>2, <3>3 DEF BusyIffOwned
      <3> QED
        BY <2>3, <3>2, <3>3, <3>4 DEF End, AnsweredInWindow
    <2>4. ASSUME NEW h \in Handlers,
                 \/ Skip(h) \/ Answer(h) \/ Fail(h)
                 \/ \E c \in Chats : Begin(h, c) \/ Refused(h, c)
          PROVE  texts'[handler'[g].chat] = 1
      <3>1. handler'[h].at # "replied"
        <4>1. CASE Skip(h)
          BY <4>1 DEF Skip, Idle
        <4>2. CASE Answer(h) \/ Fail(h)
          <5>1. handler[h] \in [at : Owning \cup {"refused"}, chat : Chats]
            BY <4>2 DEF Answer, Fail, Idle
          <5> QED
            BY <4>2, <5>1 DEF Answer, Fail
        <4>3. CASE \E c \in Chats : Begin(h, c) \/ Refused(h, c)
          BY <4>3 DEF Begin, Refused
        <4> QED
          BY <2>4, <4>1, <4>2, <4>3
      <3>2. texts' = texts /\ \A x \in Handlers \ {h} : handler'[x] = handler[x]
        BY <2>4 DEF Skip, Answer, Fail, Begin, Refused
      <3> QED
        BY <3>1, <3>2 DEF AnsweredInWindow
    <2>5. CASE UNCHANGED gateVars
      BY <2>5 DEF gateVars, AnsweredInWindow
    <2> QED
      BY <2>1, <2>2, <2>3, <2>4, <2>5 DEF GateNext, Proceed, ToolSend, OtherSend
  <1> QED
    BY <1>1, <1>2, GateStart, GateStep, PTL DEF GateSpec

\* The gate implements the promise of one text per inbound message: every
\* step opens a window, lets its one text through, shuts it, or stutters.
THEOREM GateImplementsPromise == GateSpec => OneReplyPerInbound
  <1> DEFINE ownersBar == [c \in Chats |-> Owners(c)]
  <1>1. GateInit => Promise!Init
    BY DEF GateInit, Promise!Init, Owners, Owning, Idle
  <1>2. GateInv /\ [GateNext]_gateVars => [Promise!Next]_(Promise!window)
    <2> SUFFICES ASSUME GateInv, [GateNext]_gateVars
                 PROVE  Promise!Next \/ UNCHANGED <<ownersBar, texts>>
      BY DEF Promise!window
    <2> USE DEF GateInv
    <2>1. ASSUME NEW c \in Chats, AllowTextSend(c),
                 \A d \in Chats : Owners(d)' = Owners(d)
          PROVE  Promise!Next \/ UNCHANGED <<ownersBar, texts>>
      <3>1. ownersBar' = ownersBar
        BY <2>1
      <3>2. CASE texts' = texts
        BY <3>1, <3>2
      <3>3. CASE texts' # texts
        <4>1. Owners(c) # {} /\ texts[c] = 0 /\ texts' = [texts EXCEPT ![c] = 1]
          BY <2>1, <3>3, SendEffect
        <4>2. Promise!Speak(c)
          BY <3>1, <4>1 DEF Promise!Speak
        <4> QED
          BY <4>2 DEF Promise!Next
      <3> QED
        BY <3>2, <3>3
    <2>2. ASSUME NEW h \in Handlers, NEW c \in Chats, Begin(h, c)
          PROVE  Promise!Open(h, c)
      <3> DEFINE st == [at |-> "running", chat |-> c]
      <3>1. st \in [at : Owning \cup {"refused"}, chat : Chats] /\ st.at \in Owning
        BY DEF Owning
      <3>2. Owners(c) = {} /\ handler[h].at = "idle"
        BY <2>2 DEF Begin, BusyIffOwned
      <3>3. \A d \in Chats : h \notin Owners(d)
        BY <3>2 DEF Owners, Owning
      <3>4. \A d \in Chats : Owners(d)' = IF d = c THEN Owners(d) \cup {h}
                                           ELSE Owners(d) \ {h}
        BY <2>2, <3>1, OwnersOfStep DEF Begin
      <3>5. ownersBar' = [ownersBar EXCEPT ![c] = {h}]
        <4>1. \A d \in Chats : Owners(d)' = IF d = c THEN {h} ELSE Owners(d)
          BY <3>2, <3>3, <3>4
        <4> QED
          BY <4>1
      <3> QED
        <4>1. ownersBar[c] = {} /\ texts' = texts
          BY <2>2, <3>2 DEF Begin
        <4> QED
          BY <3>5, <4>1 DEF Promise!Open
    <2>3. ASSUME NEW h \in Handlers, End(h)
          PROVE  Promise!Shut(h, handler[h].chat) /\ handler[h].chat \in Chats
      <3> DEFINE c == handler[h].chat
      <3>1. c \in Chats /\ h \in Owners(c) /\ Idle.at = "idle"
        BY <2>3 DEF End, GateTypeOK, Idle, Owners, Owning
      <3>2. Owners(c) = {h}
        BY <3>1 DEF BusyIffOwned
      <3>3. \A d \in Chats : Owners(d)' = Owners(d) \ {h}
        BY <2>3, <3>1, OwnersOfStep DEF End, Owning
      <3>4. \A d \in Chats \ {c} : h \notin Owners(d)
        BY DEF Owners
      <3>5. ownersBar' = [ownersBar EXCEPT ![c] = {}]
        <4>1. \A d \in Chats : Owners(d)' = IF d = c THEN {} ELSE Owners(d)
          BY <3>2, <3>3, <3>4
        <4> QED
          BY <4>1
      <3> QED
        <4>1. ownersBar[c] = {h} /\ texts' = [texts EXCEPT ![c] = 0]
          BY <2>3, <3>1, <3>2 DEF End
        <4> QED
          BY <3>1, <3>5, <4>1 DEF Promise!Shut
    <2>4. ASSUME NEW h \in Handlers, Reply(h)
          PROVE  handler[h].chat \in Chats /\ \A d \in Chats : Owners(d)' = Owners(d)
      <3>1. handler[h] \in [at : Owning \cup {"refused"}, chat : Chats]
        BY <2>4 DEF Reply, GateTypeOK, Idle
      <3> QED
        BY <2>4, <3>1 DEF Reply, Owners, Owning, GateTypeOK
    <2>5. ASSUME NEW h \in Handlers,
                 Skip(h) \/ Answer(h) \/ Fail(h) \/ \E c \in Chats : Refused(h, c)
          PROVE  UNCHANGED <<ownersBar, texts>>
      <3>1. /\ handler' \in [Handlers -> {Idle} \cup
                                [at : Owning \cup {"refused"}, chat : Chats]]
            /\ \A d \in Chats : Owners(d)' = Owners(d)
        BY <2>5 DEF Skip, Answer, Fail, Refused, Owners, Owning, GateTypeOK, Idle
      <3> QED
        BY <2>5, <3>1 DEF Skip, Answer, Fail, Refused
    <2>6. CASE UNCHANGED gateVars
      BY <2>6, OwnersUnchanged DEF gateVars
    <2>7. ASSUME NEW c \in Chats, UNCHANGED handler, AllowTextSend(c)
          PROVE  Promise!Next \/ UNCHANGED <<ownersBar, texts>>
      BY <2>1, <2>7, OwnersUnchanged
    <2> QED
      BY <2>1, <2>2, <2>3, <2>4, <2>5, <2>6, <2>7
      DEF GateNext, Proceed, ToolSend, OtherSend, Reply, Promise!Next
  <1> QED
    BY <1>1, <1>2, GateStart, GateStep, PTL DEF GateSpec, OneReplyPerInbound, Promise!Spec

-----------------------------------------------------------------------------
(* Pairing.                                                                *)

\* One file read or written is a manager again.
LEMMA LoadManager ==
    ASSUME NEW f \in Managers \cup {Torn}
    PROVE  /\ Load(f) \in Managers
           /\ f = Torn => Load(f) = Nothing
           /\ f # Torn => Load(f) = f
  BY DEF Load, Managers, Nothing

\* Nothing, Torn and Managers have the shapes that Load relies on.
LEMMA TornIsEmpty ==
    /\ Torn \in Managers \cup {Torn}
    /\ Load(Torn) = Nothing
    /\ Nothing \in Managers
    /\ Nothing.pending = {} /\ Nothing.whitelist = {}
  BY DEF Load, Managers, Nothing

\* A step of one of the processes keeps the types.
LEMMA TypeInvariant == TypeOK /\ [Next]_vars => TypeOK'
<1> SUFFICES ASSUME TypeOK, [Next]_vars PROVE TypeOK'
  OBVIOUS
<1> USE LoadManager, TornIsEmpty
<1>1. ASSUME NEW u \in Users, Known(u) PROVE TypeOK'
  BY <1>1 DEF TypeOK, Known, ThenGo, historyVars
<1>2. ASSUME NEW u \in Users, Welcome(u) PROVE TypeOK'
  <2>1. mem' \in Managers /\ mem'.pending = mem.pending
    BY <1>2 DEF TypeOK, Welcome, Managers
  <2>2. bot' \in [at : {"open", "write"}, user : Users, next : {"idle", "request", "process"}]
    BY <1>2 DEF Welcome, ThenSave
  <2> QED
    BY <1>2, <2>1, <2>2 DEF TypeOK, Welcome
<1>3. ASSUME NEW u \in Users, Stranger(u) PROVE TypeOK'
  <2>1. mem' \in Managers /\ mem'.pending \subseteq mem.pending
    BY <1>3 DEF TypeOK, Stranger, Managers
  <2>2. bot' \in [at : {"request", "process"}, user : Users]
              \cup [at : {"open", "write"}, user : Users, next : {"idle", "request", "process"}]
    BY <1>3 DEF Stranger, ThenSave, ThenGo
  <2> QED
    BY <1>3, <2>1, <2>2 DEF TypeOK, Stranger, historyVars
<1>4. ASSUME KeepCode PROVE TypeOK'
  BY <1>4 DEF TypeOK, KeepCode, ThenGo, historyVars
<1>5. ASSUME NEW c \in Codes, DrawCode(c) PROVE TypeOK'
  <2>1. bot.user \in Users
    BY <1>5 DEF TypeOK, DrawCode, BotAt
  <2>2. mem' \in Managers /\ mem'.pending = mem.pending \cup {c}
    BY <1>5 DEF TypeOK, DrawCode, Managers
  <2>3. /\ DOMAIN issued' = DOMAIN issued \cup {c}
        /\ \A x \in DOMAIN issued' : issued'[x] \in Users
    BY <1>5, <2>1 DEF TypeOK, DrawCode
  <2>4. bot' \in [at : {"open", "write"}, user : Users, next : {"idle", "request", "process"}]
    BY <1>5, <2>1 DEF DrawCode, ThenSave
  <2> QED
    BY <1>5, <2>2, <2>3, <2>4 DEF TypeOK, DrawCode, historyVars
<1>6. ASSUME BotOpen PROVE TypeOK'
  <2>1. bot' \in [at : {"open", "write"}, user : Users, next : {"idle", "request", "process"}]
    BY <1>6 DEF TypeOK, BotOpen, BotAt
  <2> QED
    BY <1>6, <2>1 DEF TypeOK, BotOpen, historyVars
<1>7. ASSUME BotWrite PROVE TypeOK'
  <2>1. /\ file' \in {mem, Torn}
        /\ Load(file').pending \subseteq mem.pending
    BY <1>7 DEF TypeOK, BotWrite, Written
  <2>2. bot' \in [at : {"idle", "down"}] \cup [at : {"request", "process"}, user : Users]
    BY <1>7 DEF TypeOK, BotWrite, BotAt, ThenGo
  <2> QED
    BY <1>7, <2>1, <2>2 DEF TypeOK, BotWrite, historyVars
<1>8. ASSUME Process PROVE TypeOK'
  BY <1>8 DEF TypeOK, Process, BotAt, ThenGo
<1>9. ASSUME Crash PROVE TypeOK'
  BY <1>9 DEF TypeOK, Crash, historyVars
<1>10. ASSUME Start PROVE TypeOK'
  BY <1>10 DEF TypeOK, Start, historyVars
<1>11. ASSUME NEW c \in Codes, Approve(c) PROVE TypeOK'
  <2>1. Load(file) \in Managers /\ c \in DOMAIN issued /\ issued[c] \in Users
    BY <1>11 DEF TypeOK, Approve
  <2>2. cliMem' \in Managers /\ cliMem'.pending \subseteq Load(file).pending
    BY <1>11, <2>1 DEF Approve, CliSaves, Managers
  <2>3. cli' \in [at : {"open", "write"}, did : {"approve", "discard", "remove"}, user : Users]
    BY <1>11, <2>1 DEF Approve, CliSaves
  <2> QED
    BY <1>11, <2>1, <2>2, <2>3 DEF TypeOK, Approve, CliSaves
<1>12. ASSUME NEW c \in Codes, Discard(c) PROVE TypeOK'
  <2>1. Load(file) \in Managers /\ c \in DOMAIN issued /\ issued[c] \in Users
    BY <1>12 DEF TypeOK, Discard
  <2>2. cliMem' \in Managers /\ cliMem'.pending \subseteq Load(file).pending
    BY <1>12, <2>1 DEF Discard, CliSaves, Managers
  <2>3. cli' \in [at : {"open", "write"}, did : {"approve", "discard", "remove"}, user : Users]
    BY <1>12, <2>1 DEF Discard, CliSaves
  <2> QED
    BY <1>12, <2>1, <2>2, <2>3 DEF TypeOK, Discard, CliSaves
<1>13. ASSUME NEW u \in Users, Remove(u) PROVE TypeOK'
  <2>1. Load(file) \in Managers
    BY <1>13 DEF TypeOK
  <2>2. cliMem' \in Managers /\ cliMem'.pending = Load(file).pending
    BY <1>13, <2>1 DEF Remove, CliSaves, Managers
  <2>3. cli' \in [at : {"open", "write"}, did : {"approve", "discard", "remove"}, user : Users]
    BY <1>13 DEF Remove, CliSaves
  <2> QED
    BY <1>13, <2>1, <2>2, <2>3 DEF TypeOK, Remove, CliSaves
<1>14. ASSUME CliOpen PROVE TypeOK'
  <2>1. cli' \in [at : {"open", "write"}, did : {"approve", "discard", "remove"}, user : Users]
    BY <1>14 DEF TypeOK, CliOpen
  <2> QED
    BY <1>14, <2>1 DEF TypeOK, CliOpen, historyVars
<1>15. ASSUME CliWrite PROVE TypeOK'
  <2>1. /\ file' \in {cliMem, Torn}
        /\ Load(file').pending \subseteq cliMem.pending
    BY <1>15 DEF TypeOK, CliWrite, Written
  <2>2. cli.user \in Users
    BY <1>15 DEF TypeOK, CliWrite
  <2> QED
    BY <1>15, <2>1, <2>2 DEF TypeOK, CliWrite
<1>16. ASSUME NEW c \in Codes, Expire(c) PROVE TypeOK'
  BY <1>16 DEF TypeOK, Expire, historyVars
<1>17. CASE UNCHANGED vars
  BY <1>17 DEF TypeOK, vars, historyVars
<1> QED
  BY <1>1, <1>2, <1>3, <1>4, <1>5, <1>6, <1>7, <1>8, <1>9, <1>10, <1>11, <1>12, <1>13,
     <1>14, <1>15, <1>16, <1>17 DEF Next

\* Every reachable state has the types of TypeOK.
THEOREM PairingTypeCorrect == Spec => []TypeOK
<1>1. Init => TypeOK
  BY TornIsEmpty, LoadManager DEF Init, TypeOK, Load
<1> QED
  BY <1>1, TypeInvariant, PTL DEF Spec

-----------------------------------------------------------------------------

\* The adapter is about to pass on a message of its current user.
LettingIn ==
    bot.at = "process" \/ (bot.at \in {"open", "write"} /\ bot.next = "process")

\* ProcessedWasGranted is not inductive alone: the user of a message that is on
\* its way in, or waits for a save, must have been granted as well.
GrantInv ==
    /\ TypeOK
    /\ ProcessedWasGranted
    /\ LettingIn => bot.user \in granted

\* What ProcessedWasGranted says of the three copies.
LEMMA ThreeCopies ==
    ProcessedWasGranted <=> /\ processed \subseteq granted
                            /\ mem.whitelist \subseteq granted
                            /\ Load(file).whitelist \subseteq granted
                            /\ cliMem.whitelist \subseteq granted
  BY DEF ProcessedWasGranted, Snapshots

LEMMA GrantInvariant == GrantInv /\ [Next]_vars => GrantInv'
<1> SUFFICES ASSUME GrantInv, [Next]_vars
             PROVE  /\ (processed \subseteq granted)'
                    /\ (mem.whitelist \subseteq granted)'
                    /\ (Load(file).whitelist \subseteq granted)'
                    /\ (cliMem.whitelist \subseteq granted)'
                    /\ (LettingIn => bot.user \in granted)'
  BY TypeInvariant, ThreeCopies DEF GrantInv, ProcessedWasGranted, Snapshots
<1> DEFINE Goal == /\ (processed \subseteq granted)'
                   /\ (mem.whitelist \subseteq granted)'
                   /\ (Load(file).whitelist \subseteq granted)'
                   /\ (cliMem.whitelist \subseteq granted)'
                   /\ (LettingIn => bot.user \in granted)'
<1> USE LoadManager, TornIsEmpty
<1>t. TypeOK
  BY DEF GrantInv
<1>i. /\ processed \subseteq granted
      /\ mem.whitelist \subseteq granted
      /\ Load(file).whitelist \subseteq granted
      /\ cliMem.whitelist \subseteq granted
      /\ LettingIn => bot.user \in granted
  BY ThreeCopies DEF GrantInv
<1>1. ASSUME NEW u \in Users, Known(u) PROVE Goal
  BY <1>1, <1>i DEF Known, ThenGo, historyVars, LettingIn
<1>2. ASSUME NEW u \in Users, Welcome(u) PROVE Goal
  <2>1. mem'.whitelist = mem.whitelist \cup {u}
    BY <1>2, <1>t DEF TypeOK, Welcome, Managers
  <2> QED
    BY <1>2, <1>i, <2>1 DEF Welcome, ThenSave, LettingIn
<1>3. ASSUME NEW u \in Users, Stranger(u) PROVE Goal
  <2>1. mem'.whitelist = mem.whitelist
    BY <1>3, <1>t DEF TypeOK, Stranger, Managers
  <2>2. ~ LettingIn'
    BY <1>3 DEF Stranger, ThenSave, ThenGo, LettingIn
  <2> QED
    BY <1>3, <1>i, <2>1, <2>2 DEF Stranger, historyVars
<1>4. ASSUME KeepCode PROVE Goal
  BY <1>4, <1>i DEF KeepCode, ThenGo, historyVars, LettingIn
<1>5. ASSUME NEW c \in Codes, DrawCode(c) PROVE Goal
  <2>1. mem'.whitelist = mem.whitelist
    BY <1>5, <1>t DEF TypeOK, DrawCode, Managers
  <2>2. ~ LettingIn'
    BY <1>5 DEF DrawCode, ThenSave, LettingIn
  <2> QED
    BY <1>5, <1>i, <2>1, <2>2 DEF DrawCode, historyVars
<1>6. ASSUME BotOpen PROVE Goal
  <2>1. bot \in [at : {"open", "write"}, user : Users, next : {"idle", "request", "process"}]
    BY <1>6, <1>t DEF TypeOK, BotOpen, BotAt
  <2>2. bot'.next = bot.next /\ bot'.user = bot.user /\ bot'.at = "write"
    BY <1>6, <2>1 DEF BotOpen
  <2> QED
    BY <1>6, <1>i, <2>2 DEF BotOpen, BotAt, historyVars, LettingIn
<1>7. ASSUME BotWrite PROVE Goal
  <2>1. Load(file').whitelist \subseteq mem.whitelist
    BY <1>7, <1>t DEF TypeOK, BotWrite, Written
  <2>2. LettingIn' => bot.next = "process" /\ bot'.user = bot.user
    BY <1>7, <1>t DEF TypeOK, BotWrite, BotAt, ThenGo, LettingIn
  <2> QED
    BY <1>7, <1>i, <2>1, <2>2 DEF BotWrite, BotAt, historyVars, LettingIn
<1>8. ASSUME Process PROVE Goal
  <2>1. bot.user \in granted
    BY <1>8, <1>i DEF Process, BotAt, LettingIn
  <2>2. ~ LettingIn'
    BY <1>8 DEF Process, ThenGo, LettingIn
  <2> QED
    BY <1>8, <1>i, <2>1, <2>2 DEF Process
<1>9. ASSUME Crash PROVE Goal
  BY <1>9, <1>i DEF Crash, historyVars, LettingIn
<1>10. ASSUME Start PROVE Goal
  BY <1>10, <1>i DEF Start, historyVars, LettingIn
<1>11. ASSUME NEW c \in Codes, Approve(c) PROVE Goal
  <2>1. cliMem'.whitelist = Load(file).whitelist \cup {issued[c]}
    BY <1>11 DEF Approve, CliSaves
  <2> QED
    BY <1>11, <1>i, <2>1 DEF Approve, CliSaves, LettingIn
<1>12. ASSUME NEW c \in Codes, Discard(c) PROVE Goal
  <2>1. Load(file) \in Managers
    BY <1>t DEF TypeOK
  <2>2. cliMem'.whitelist = Load(file).whitelist
    BY <1>12, <2>1 DEF Discard, CliSaves, Managers
  <2> QED
    BY <1>12, <1>i, <2>2 DEF Discard, CliSaves, LettingIn
<1>13. ASSUME NEW u \in Users, Remove(u) PROVE Goal
  <2>1. Load(file) \in Managers
    BY <1>t DEF TypeOK
  <2>2. cliMem'.whitelist = Load(file).whitelist \ {u}
    BY <1>13, <2>1 DEF Remove, CliSaves, Managers
  <2> QED
    BY <1>13, <1>i, <2>2 DEF Remove, CliSaves, LettingIn
<1>14. ASSUME CliOpen PROVE Goal
  BY <1>14, <1>i DEF CliOpen, historyVars, LettingIn
<1>15. ASSUME CliWrite PROVE Goal
  <2>1. Load(file').whitelist \subseteq cliMem.whitelist
    BY <1>15, <1>t DEF TypeOK, CliWrite, Written
  <2> QED
    BY <1>15, <1>i, <2>1 DEF CliWrite, LettingIn
<1>16. ASSUME NEW c \in Codes, Expire(c) PROVE Goal
  BY <1>16, <1>i DEF Expire, historyVars, LettingIn
<1>17. CASE UNCHANGED vars
  BY <1>17, <1>i DEF vars, historyVars, LettingIn
<1> QED
  BY <1>1, <1>2, <1>3, <1>4, <1>5, <1>6, <1>7, <1>8, <1>9, <1>10, <1>11, <1>12, <1>13,
     <1>14, <1>15, <1>16, <1>17 DEF Next

\* Whatever is lost, torn or overwritten, no message of a user is passed on and
\* no copy of the whitelist names a user without an approval of that user.
THEOREM GrantCorrect == Spec => []ProcessedWasGranted
<1>1. Init => GrantInv
  <2>1. Init => TypeOK
    BY TornIsEmpty, LoadManager DEF Init, TypeOK, Load
  <2>2. Init => ProcessedWasGranted
    BY TornIsEmpty, LoadManager, ThreeCopies DEF Init, Load
  <2>3. Init => ~ LettingIn
    BY DEF Init, LettingIn
  <2> QED
    BY <2>1, <2>2, <2>3 DEF GrantInv
<1>2. GrantInv => ProcessedWasGranted
  BY DEF GrantInv
<1> QED
  BY <1>1, <1>2, GrantInvariant, PTL DEF Spec

-----------------------------------------------------------------------------

\* Two live codes of one user are one code.
Single(m) == \A c, d \in m.pending \ expired : issued[c] = issued[d] => c = d
SingleInv == Single(mem) /\ Single(Load(file)) /\ Single(cliMem)

LEMMA SingleStep ==
    ASSUME TypeOK, SingleInv, [Next]_vars
    PROVE  SingleInv'
<1> USE LoadManager, TornIsEmpty
<1>1. ASSUME expired' = expired, issued' = issued,
             \/ mem' = mem \/ mem'.pending \subseteq mem.pending
             \/ mem'.pending \subseteq Load(file).pending,
             \/ Load(file') = Load(file) \/ Load(file').pending \subseteq mem.pending
             \/ Load(file').pending \subseteq cliMem.pending,
             \/ cliMem' = cliMem \/ cliMem'.pending \subseteq Load(file).pending
      PROVE  SingleInv'
  BY <1>1 DEF SingleInv, Single
<1>2. ASSUME NEW u \in Users, Known(u) \/ Welcome(u) \/ Stranger(u) PROVE SingleInv'
  <2>1. mem' = mem \/ mem'.pending \subseteq mem.pending
    <3>1. mem \in Managers
      BY DEF TypeOK
    <3>2. \/ mem' = mem
          \/ mem' = [mem EXCEPT !.whitelist = @ \cup {u}]
          \/ mem' = [mem EXCEPT !.pending = @ \ expired]
      BY <1>2 DEF Known, Welcome, Stranger
    <3> QED
      BY <3>1, <3>2 DEF Managers
  <2>2. UNCHANGED <<file, cliMem, issued, expired>>
    BY <1>2 DEF Known, Welcome, Stranger
  <2> QED
    BY <1>1, <2>1, <2>2
<1>3. ASSUME NEW c \in Codes, DrawCode(c) PROVE SingleInv'
  <2>1. /\ mem'.pending = mem.pending \cup {c} /\ c \notin DOMAIN issued
        /\ UNCHANGED <<file, cliMem, expired>>
        /\ LiveCodes(mem, bot.user) = {}
    BY <1>3 DEF TypeOK, DrawCode, Managers
  <2>2. /\ issued'[c] = bot.user
        /\ \A x \in DOMAIN issued : issued'[x] = issued[x]
    BY <1>3, <2>1 DEF DrawCode
  <2>3. mem.pending \cup Load(file).pending \cup cliMem.pending \subseteq DOMAIN issued
    BY DEF TypeOK
  <2>4. \A d \in mem.pending \ expired : issued[d] # bot.user
    BY <2>1 DEF LiveCodes
  <2>5. Single(mem)'
    BY <2>1, <2>2, <2>3, <2>4 DEF SingleInv, Single
  <2>6. Single(Load(file))' /\ Single(cliMem)'
    BY <2>1, <2>2, <2>3 DEF SingleInv, Single
  <2> QED
    BY <2>5, <2>6 DEF SingleInv
<1>4. ASSUME BotWrite PROVE SingleInv'
  <2>1. Load(file').pending \subseteq mem.pending
    BY <1>4 DEF TypeOK, BotWrite, Written
  <2> QED
    BY <1>1, <1>4, <2>1 DEF BotWrite
<1>5. ASSUME CliWrite PROVE SingleInv'
  <2>1. Load(file').pending \subseteq cliMem.pending
    BY <1>5 DEF TypeOK, CliWrite, Written
  <2>2. cliMem'.pending \subseteq Load(file).pending
    BY <1>5 DEF CliWrite
  <2> QED
    BY <1>1, <1>5, <2>1, <2>2 DEF CliWrite
<1>6. ASSUME BotOpen \/ CliOpen PROVE SingleInv'
  <2>1. Load(file').pending \subseteq mem.pending
    BY <1>6 DEF BotOpen, CliOpen
  <2> QED
    BY <1>1, <1>6, <2>1 DEF BotOpen, CliOpen
<1>7. ASSUME KeepCode \/ Process \/ Crash \/ Start PROVE SingleInv'
  <2>1. mem' = mem \/ mem'.pending \subseteq Load(file).pending
    BY <1>7 DEF KeepCode, Process, Crash, Start
  <2> QED
    BY <1>1, <1>7, <2>1 DEF KeepCode, Process, Crash, Start
<1>8. ASSUME \/ \E c \in Codes : Approve(c) \/ Discard(c)
             \/ \E u \in Users : Remove(u)
      PROVE  SingleInv'
  <2>1. Load(file) \in Managers
    BY DEF TypeOK
  <2>2. cliMem'.pending \subseteq Load(file).pending
    BY <1>8, <2>1 DEF Approve, Discard, Remove, CliSaves, Managers
  <2> QED
    BY <1>1, <1>8, <2>2 DEF Approve, Discard, Remove, CliSaves
<1>9. ASSUME NEW c \in Codes, Expire(c) PROVE SingleInv'
  BY <1>9 DEF Expire, SingleInv, Single
<1>10. CASE UNCHANGED vars
  BY <1>10 DEF vars, SingleInv, Single
<1> QED
  BY <1>2, <1>3, <1>4, <1>5, <1>6, <1>7, <1>8, <1>9, <1>10 DEF Next

\* No copy of the state holds two codes of one user that can be approved,
\* however many users, codes, commands and crashes there are.
THEOREM OneCodeCorrect == Spec => []OneLiveCode
<1>1. Init => SingleInv
  BY TornIsEmpty, LoadManager DEF Init, SingleInv, Single, Load
<1>2. TypeOK /\ SingleInv /\ [Next]_vars => SingleInv'
  BY SingleStep
<1>3. ASSUME SingleInv PROVE OneLiveCode
  <2> SUFFICES ASSUME NEW m \in Snapshots, NEW u \in Users
               PROVE  Cardinality(LiveCodes(m, u)) <= 1
    BY DEF OneLiveCode
  <2>1. Single(m)
    BY <1>3 DEF SingleInv, Snapshots
  <2>2. CASE LiveCodes(m, u) = {}
    BY <2>2, FS_EmptySet
  <2>3. ASSUME NEW c \in LiveCodes(m, u) PROVE Cardinality(LiveCodes(m, u)) <= 1
    <3>1. LiveCodes(m, u) = {c}
      BY <2>1, <2>3 DEF LiveCodes, Single
    <3> QED
      BY <3>1, FS_Singleton
  <2> QED
    BY <2>2, <2>3
<1> QED
  BY <1>1, <1>2, <1>3, PairingTypeCorrect, PTL DEF Spec
=============================================================================
