-------------------------- MODULE SessionDirectory --------------------------
(***************************************************************************)
(* What clients may rely on, with no processes, readers or event loop in   *)
(* sight: the daemon is a directory of session names. A call takes effect  *)
(* at one instant between invocation and answer, at most once, and its     *)
(* answer tells what the directory held at that instant. A name goes by a  *)
(* kill, by a sweep after its program ended, or with the server; and the   *)
(* server leaves on its own only while it has no name to lose.             *)
(***************************************************************************)
EXTENDS Naturals

CONSTANTS Client, Request, Name, Numeral, Unnamed, NoRequest

VARIABLES
  dir,      \* the names of the sessions
  ended,    \* those whose program is taken to have ended
  used,     \* a sweep has found a name in the directory
  told,     \* the server was told to stop
  status,   \* "serving", "leaving" (hears calls, answers none), "stopped"
  call,     \* call[c]: "idle", "pending", "gone" (nobody waits), "done", "failed"
  asked,    \* asked[c]: the request of a pending or abandoned call
  answer    \* answer[c]: the answer of a call that is done

calls == <<call, asked, answer>>
vars == <<dir, ended, used, told, status, calls>>

Answer(r, n, names) == [result |-> r, name |-> n, names |-> names]
NoAnswer == Answer("none", Unnamed, {})

InitDirectory ==
  /\ dir = {} /\ ended = {}
  /\ used = FALSE /\ told = FALSE
  /\ status = "serving"
  /\ call = [c \in Client |-> "idle"]
  /\ asked = [c \in Client |-> NoRequest]
  /\ answer = [c \in Client |-> NoAnswer]

-----------------------------------------------------------------------------
(* What each request may do to the directory and answer.                   *)

CreateAs(r, n, a) ==
  /\ n \in (IF r.name = Unnamed THEN Numeral ELSE {r.name})
  /\ \/ /\ n \in dir /\ r.name # Unnamed
        /\ a = Answer("exists", n, {}) /\ dir' = dir
     \/ /\ n \notin dir
        /\ a = Answer("spawn_failed", n, {}) /\ dir' = dir
     \/ /\ n \notin dir
        /\ a = Answer("ok", n, {}) /\ dir' = dir \cup {n}

\* The answers to a request that needs session n and finds it.
Found(op, n) ==
  CASE op \in {"send", "resize"} -> {"ok", "io_failed"}
    [] op = "view_screen" -> {IF n \in ended THEN "exited" ELSE "ok"}
    [] OTHER -> {"ok"}

NeedsSession == {"kill", "send", "view_screen", "hardcopy", "resize"}

Effect(r, a) ==
  \/ r.op = "create" /\ \E n \in Name : CreateAs(r, n, a)
  \/ /\ r.op \in NeedsSession
     /\ r.name \notin dir
     /\ a = Answer("not_found", r.name, {}) /\ dir' = dir
  \/ /\ r.op \in NeedsSession
     /\ r.name \in dir
     /\ \E result \in Found(r.op, r.name) : a = Answer(result, r.name, {})
     /\ dir' = IF r.op = "kill" THEN dir \ {r.name} ELSE dir
  \/ r.op = "list" /\ a = Answer("ok", Unnamed, dir) /\ dir' = dir
  \/ r.op \in {"ping", "kill_server"} /\ a = Answer("ok", Unnamed, {}) /\ dir' = dir
  \/ r.op = "bad" /\ a = Answer("rejected", Unnamed, {}) /\ dir' = dir

Results == {"ok", "exists", "not_found", "spawn_failed", "io_failed", "exited", "rejected"}
Answers == [result : Results, name : Name \cup {Unnamed}, names : {{}, dir}]

\* A request leaves the other names as they are; the session it adds has not ended.
Effective(r, a) ==
  /\ Effect(r, a)
  /\ ended' = ended \cap dir'
  /\ status' = IF r.op = "kill_server" THEN "leaving" ELSE "serving"

-----------------------------------------------------------------------------
(* Calls.                                                                  *)

Invoke(c, r) ==
  /\ status # "stopped"
  /\ call[c] \in {"idle", "done", "failed"}
  /\ call' = [call EXCEPT ![c] = "pending"]
  /\ asked' = [asked EXCEPT ![c] = r]
  /\ answer' = [answer EXCEPT ![c] = NoAnswer]
  /\ UNCHANGED <<dir, ended, used, told, status>>

Perform(c) ==
  /\ status = "serving"
  /\ call[c] = "pending"
  /\ call' = [call EXCEPT ![c] = "done"]
  /\ asked' = [asked EXCEPT ![c] = NoRequest]
  /\ \E a \in Answers : answer' = [answer EXCEPT ![c] = a] /\ Effective(asked[c], a)
  /\ UNCHANGED <<used, told>>

\* The caller goes away; its request is performed once or not at all.
Vanish(c) ==
  /\ call[c] = "pending"
  /\ call' = [call EXCEPT ![c] = "gone"]
  /\ UNCHANGED <<dir, ended, used, told, status, asked, answer>>

Settle(c) ==
  /\ status = "serving"
  /\ call[c] = "gone"
  /\ call' = [call EXCEPT ![c] = "idle"]
  /\ asked' = [asked EXCEPT ![c] = NoRequest]
  /\ \/ UNCHANGED <<dir, ended, status>>
     \/ \E a \in Answers : Effective(asked[c], a)
  /\ UNCHANGED <<used, told, answer>>

-----------------------------------------------------------------------------
(* Names and the server end.                                               *)

\* Programs end; one that only seemed to have ended may be there again.
ProgramsEnd ==
  /\ ended' \in SUBSET dir
  /\ UNCHANGED <<dir, used, told, status, calls>>

\* The names of ended programs go, and a server that was used and holds no other
\* may leave.
Sweep ==
  /\ status = "serving"
  /\ dir' = dir \ ended /\ ended' = {}
  /\ used' = (used \/ dir' # {})
  /\ status' \in {"serving"} \cup (IF used /\ dir' = {} THEN {"leaving"} ELSE {})
  /\ UNCHANGED <<told, calls>>

Tell ==
  /\ told' = TRUE
  /\ UNCHANGED <<dir, ended, used, status, calls>>

Obey ==
  /\ status = "serving" /\ told
  /\ status' = "leaving"
  /\ UNCHANGED <<dir, ended, used, told, calls>>

\* The server ends: no call is answered any more.
CallsFail ==
  /\ status' = "stopped"
  /\ call' = [c \in Client |-> CASE call[c] = "pending" -> "failed"
                                 [] call[c] = "gone" -> "idle"
                                 [] OTHER -> call[c]]
  /\ asked' = [c \in Client |-> NoRequest]
  /\ UNCHANGED <<used, told, answer>>

StopListening == status = "leaving" /\ CallsFail /\ UNCHANGED <<dir, ended>>

\* The last names go after the server stopped.
Vacate ==
  /\ status = "stopped"
  /\ dir' = {} /\ ended' = {}
  /\ UNCHANGED <<used, told, status, calls>>

\* Looking at the screen of a session whose reader failed ends it all at once.
Crash ==
  /\ status = "serving"
  /\ \E c \in Client :
       /\ call[c] \in {"pending", "gone"}
       /\ asked[c].op \in {"view_screen", "hardcopy", "resize"}
       /\ asked[c].name \in dir
  /\ dir' = {} /\ ended' = {}
  /\ CallsFail

NextDirectory ==
  \/ \E c \in Client :
       Vanish(c) \/ Perform(c) \/ Settle(c) \/ \E r \in Request : Invoke(c, r)
  \/ ProgramsEnd \/ Sweep
  \/ Tell \/ Obey \/ StopListening \/ Vacate \/ Crash

SpecDirectory == InitDirectory /\ [][NextDirectory]_vars
=============================================================================
