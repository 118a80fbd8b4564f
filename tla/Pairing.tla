------------------------------ MODULE Pairing ------------------------------
(***************************************************************************)
(* gateway/pairing.py: who may talk to the bot.  The running Telegram      *)
(* adapter and every "ww pairing" command have a PairingManager each, with *)
(* a whitelist and pending codes in memory; they share nothing but the     *)
(* JSON file that a manager reads once, when it is created, and overwrites *)
(* in place on every change.                                               *)
(***************************************************************************)
EXTENDS Naturals, FiniteSets

CONSTANTS
    Users,         \* user ids
    Codes,         \* pairing codes; random, so no code is drawn twice
    AutoApprove,   \* the values WW_PAIRING_AUTO_APPROVE may have, read per message
    BotRestarts    \* whether the bot's process may end and start again

ASSUME PairingAssumption == AutoApprove \subseteq BOOLEAN /\ BotRestarts \in BOOLEAN

VARIABLES
    bot,        \* where the adapter stands, for whom, and what follows a save
    mem,        \* the adapter's manager
    file,       \* pairing.json: a snapshot of a manager, or Torn
    cli,        \* where a "ww pairing" command stands, and what it did to whom
    cliMem,     \* its manager
    issued,     \* codes drawn so far, with the user each stands for
    expired,    \* codes older than CODE_TTL
    granted,    \* history: users approved at some time
    processed   \* history: users whose messages were passed on

historyVars == <<granted, processed>>
vars == <<bot, mem, file, cli, cliMem, issued, expired, historyVars>>

Managers == [whitelist : SUBSET Users, pending : SUBSET Codes]
Nothing == [whitelist |-> {}, pending |-> {}]
Torn == [torn |-> TRUE]

Init ==
    /\ bot = [at |-> "idle"]
    /\ mem = Nothing
    /\ file = Nothing
    /\ cli = [at |-> "idle"]
    /\ cliMem = Nothing
    /\ issued = [c \in {} |-> Nothing]
    /\ expired = {}
    /\ granted = {}
    /\ processed = {}

\* Mutant of Load: whoever is known to the file is let in.
LoadEveryone(f) ==
    IF f = Torn THEN Nothing
    ELSE [f EXCEPT !.whitelist = @ \cup {issued[c] : c \in f.pending}]

\* _load(): a file that does not parse counts as empty.
Load(f) == IF f = Torn THEN Nothing ELSE f

\* What the file holds once json.dump() has written m.  Two writers that are
\* both past open() may leave one text over the other.
Written(m) == IF file = Torn THEN {m} ELSE {m, Torn}

LiveCodes(m, u) == {c \in m.pending \ expired : issued[c] = u}

(***************************************************************************)
(* The adapter: _process_message_update, one message at a time             *)
(***************************************************************************)

BotAt(s) == bot.at = s
ThenSave(u, next) == bot' = [at |-> "open", user |-> u, next |-> next]
ThenGo(u, next) == bot' = IF next = "idle" THEN [at |-> "idle"]
                          ELSE [at |-> next, user |-> u]

\* A message of a user who is_allowed(), or let in by the environment.
Known(u) ==
    /\ BotAt("idle")
    /\ u \in mem.whitelist
    /\ ThenGo(u, "process")
    /\ UNCHANGED <<mem, file, cli, cliMem, issued, expired, historyVars>>

Welcome(u) ==
    /\ BotAt("idle")
    /\ TRUE \in AutoApprove
    /\ u \notin mem.whitelist
    /\ mem' = [mem EXCEPT !.whitelist = @ \cup {u}]
    /\ granted' = granted \cup {u}
    /\ ThenSave(u, "process")
    /\ UNCHANGED <<file, cli, cliMem, issued, expired, processed>>

\* A stranger: request_pairing(), first its _cleanup(), which sweeps and saves
\* at most once a minute.
Stranger(u) ==
    /\ BotAt("idle")
    /\ FALSE \in AutoApprove
    /\ u \notin mem.whitelist
    /\ \/ /\ ThenGo(u, "request")
          /\ UNCHANGED mem
       \/ /\ mem.pending \cap expired # {}
          /\ mem' = [mem EXCEPT !.pending = @ \ expired]
          /\ ThenSave(u, "request")
    /\ UNCHANGED <<file, cli, cliMem, issued, expired, historyVars>>

\* A code that has not expired is returned again.
KeepCode ==
    /\ BotAt("request")
    /\ LiveCodes(mem, bot.user) # {}
    /\ ThenGo(bot.user, "idle")
    /\ UNCHANGED <<mem, file, cli, cliMem, issued, expired, historyVars>>

\* Mutant of DrawCode: the user's pending code is not looked for.
DrawCodeAlways(c) ==
    /\ BotAt("request")
    /\ c \notin DOMAIN issued
    /\ issued' = [x \in DOMAIN issued \cup {c} |-> IF x = c THEN bot.user ELSE issued[x]]
    /\ mem' = [mem EXCEPT !.pending = @ \cup {c}]
    /\ ThenSave(bot.user, "idle")
    /\ UNCHANGED <<file, cli, cliMem, expired, historyVars>>

DrawCode(c) ==
    /\ BotAt("request")
    /\ LiveCodes(mem, bot.user) = {}
    /\ c \notin DOMAIN issued
    /\ issued' = [x \in DOMAIN issued \cup {c} |-> IF x = c THEN bot.user ELSE issued[x]]
    /\ mem' = [mem EXCEPT !.pending = @ \cup {c}]
    /\ ThenSave(bot.user, "idle")
    /\ UNCHANGED <<file, cli, cliMem, expired, historyVars>>

\* _save(): open() truncates the file, json.dump() fills it.
BotOpen ==
    /\ BotAt("open")
    /\ file' = Torn
    /\ bot' = [bot EXCEPT !.at = "write"]
    /\ UNCHANGED <<mem, cli, cliMem, issued, expired, historyVars>>

BotWrite ==
    /\ BotAt("write")
    /\ file' \in Written(mem)
    /\ ThenGo(bot.user, bot.next)
    /\ UNCHANGED <<mem, cli, cliMem, issued, expired, historyVars>>

\* The message goes on to the handler.
Process ==
    /\ BotAt("process")
    /\ processed' = processed \cup {bot.user}
    /\ ThenGo(bot.user, "idle")
    /\ UNCHANGED <<mem, file, cli, cliMem, issued, expired, granted>>

\* The process ends at any point, and starts again with what the file holds.
Crash ==
    /\ BotRestarts
    /\ ~BotAt("down")
    /\ bot' = [at |-> "down"]
    /\ UNCHANGED <<mem, file, cli, cliMem, issued, expired, historyVars>>

Start ==
    /\ BotAt("down")
    /\ mem' = Load(file)
    /\ bot' = [at |-> "idle"]
    /\ UNCHANGED <<file, cli, cliMem, issued, expired, historyVars>>

(***************************************************************************)
(* The "ww pairing" commands: a new manager, one change, one save          *)
(***************************************************************************)

\* A command that changed its manager to m goes on to save it.
CliSaves(m, did, u) ==
    /\ cliMem' = m
    /\ cli' = [at |-> "open", did |-> did, user |-> u]
    /\ UNCHANGED <<bot, mem, file, issued, expired, processed>>

\* Mutant of Approve: the code is whitelisted.
ApproveByCode(c) ==
    /\ cli.at = "idle"
    /\ c \in Load(file).pending \ expired
    /\ granted' = granted \cup {issued[c]}
    /\ CliSaves([whitelist |-> Load(file).whitelist \cup {c},
                 pending |-> Load(file).pending \ {c}], "approve", issued[c])

\* approve() of a pending code that has not expired.
Approve(c) ==
    /\ cli.at = "idle"
    /\ c \in Load(file).pending \ expired
    /\ granted' = granted \cup {issued[c]}
    /\ CliSaves([whitelist |-> Load(file).whitelist \cup {issued[c]},
                 pending |-> Load(file).pending \ {c}], "approve", issued[c])

\* reject(), or approve() of a code that has expired: the code is deleted.
Discard(c) ==
    /\ cli.at = "idle"
    /\ c \in Load(file).pending
    /\ CliSaves([Load(file) EXCEPT !.pending = @ \ {c}], "discard", issued[c])
    /\ UNCHANGED granted

\* remove_from_whitelist()
Remove(u) ==
    /\ cli.at = "idle"
    /\ u \in Load(file).whitelist
    /\ CliSaves([Load(file) EXCEPT !.whitelist = @ \ {u}], "remove", u)
    /\ UNCHANGED granted

CliOpen ==
    /\ cli.at = "open"
    /\ file' = Torn
    /\ cli' = [cli EXCEPT !.at = "write"]
    /\ UNCHANGED <<bot, mem, cliMem, issued, expired, historyVars>>

\* The save ends and the admin is told; the manager is gone with the process.
CliWrite ==
    /\ cli.at = "write"
    /\ file' \in Written(cliMem)
    /\ cli' = [at |-> "idle"]
    /\ cliMem' = Nothing
    /\ UNCHANGED <<bot, mem, issued, expired, granted, processed>>

\* CODE_TTL passes.
Expire(c) ==
    /\ c \in DOMAIN issued \ expired
    /\ expired' = expired \cup {c}
    /\ UNCHANGED <<bot, mem, file, cli, cliMem, issued, historyVars>>

-----------------------------------------------------------------------------

Next ==
    \/ KeepCode \/ BotOpen \/ BotWrite \/ Process \/ Crash \/ Start \/ CliOpen \/ CliWrite
    \/ \E u \in Users : Known(u) \/ Welcome(u) \/ Stranger(u) \/ Remove(u)
    \/ \E c \in Codes : DrawCode(c) \/ Approve(c) \/ Discard(c) \/ Expire(c)

Spec == Init /\ [][Next]_vars

-----------------------------------------------------------------------------

TypeOK ==
    /\ mem \in Managers
    /\ file \in Managers \cup {Torn}
    /\ cliMem \in Managers
    /\ DOMAIN issued \subseteq Codes
    /\ \A c \in DOMAIN issued : issued[c] \in Users
    /\ mem.pending \cup Load(file).pending \cup cliMem.pending \subseteq DOMAIN issued
    /\ expired \subseteq DOMAIN issued
    /\ granted \cup processed \subseteq Users
    /\ bot \in [at : {"idle", "down"}]
          \cup [at : {"request", "process"}, user : Users]
          \cup [at : {"open", "write"}, user : Users, next : {"idle", "request", "process"}]
    /\ cli \in [at : {"idle"}]
          \cup [at : {"open", "write"}, did : {"approve", "discard", "remove"}, user : Users]

Snapshots == {mem, Load(file), cliMem}

\* Nobody is let in without an approval (or the environment's) for that very
\* user, through all copies of the whitelist, stale or freshly loaded.
ProcessedWasGranted ==
    /\ processed \subseteq granted
    /\ \A m \in Snapshots : m.whitelist \subseteq granted

\* In no copy of the state does a user hold two codes that can be approved:
\* repeated messages, sweeps, restarts and stale saves do not multiply codes.
OneLiveCode ==
    \A m \in Snapshots, u \in Users : Cardinality(LiveCodes(m, u)) <= 1

=============================================================================
