------------------------------ MODULE Supervisor ------------------------------
(***************************************************************************)
(* How the consoles (xvault.py, xvault-miner.py, through onboarding.py)    *)
(* start and stop what runs in the background: the miner, the oracle       *)
(* keeper, the chat relayer and its public tunnel.  A process is known to  *)
(* every console by a pid file alone; the relayer writes and removes its   *)
(* own pid file too.  Several consoles may be open.                        *)
(*                                                                         *)
(* A process that ends stays a zombie, which os.kill(pid, 0) still finds,  *)
(* until the console that launched it launches another or quits.  Pids are *)
(* not reused.                                                             *)
(***************************************************************************)
EXTENDS Naturals, Sequences, SequencesExt

CONSTANTS Consoles,
          MayOverlap,           \* whether two are busy with one service at once
          MaxPids, MaxCrashes   \* bounds: processes launched, crashes

VARIABLES
  open,     \* the consoles that run
  pc,       \* [console -> what it is doing: kind, todo, step, pid]
  proc,     \* every process launched, [svc, parent, state]; its index is its pid
  file,     \* [service -> the pid in its pid file, 0 for none]
  log,      \* relayer-tunnel.log: the tunnels whose public URL is in it
  endpoint, \* chain: the tunnel whose URL the relayer has registered, 0 for none
  crashes   \* history

vars == <<open, pc, proc, file, log, endpoint, crashes>>

Services == {"miner", "keeper", "relayer", "tunnel"}
Idle == [kind |-> "none", todo |-> <<>>, step |-> "check", pid |-> 0]

Init ==
  /\ open = {}
  /\ pc = [c \in Consoles |-> Idle]
  /\ proc = <<>>
  /\ file = [s \in Services |-> 0]
  /\ log = <<>> /\ endpoint = 0
  /\ crashes = 0

-----------------------------------------------------------------------------
\* os.kill(pid, 0): a zombie answers too
Alive(pid) == pid # 0 /\ proc[pid].state # "gone"

Running == {p \in DOMAIN proc : proc[p].state \in {"new", "up"}}
Serving(s) == {p \in Running : proc[p].svc = s}

\* what becomes of a process that ends
Dead(p) ==
  [p EXCEPT !.state = IF p.parent \in open THEN "zombie" ELSE "gone"]

\* the console goes on with the rest of what it was asked for
Advance(c) ==
  LET rest == Tail(pc[c].todo)
  IN pc' = [pc EXCEPT ![c] =
              IF rest = <<>> THEN Idle ELSE [Idle EXCEPT !.kind = pc[c].kind, !.todo = rest]]

Goto(c, step) == pc' = [pc EXCEPT ![c].step = step]

-----------------------------------------------------------------------------
(* The console's menus. *)

\* "Install & launch", "Expose publicly", "Start miner", "Launch keeper"
Starts == {<<s>> : s \in Services \ {"tunnel"}} \cup {<<"relayer", "tunnel", "register">>}
\* "Stop relayer server" stops the tunnel as well
Stops == {<<"miner">>, <<"keeper">>, <<"relayer", "tunnel">>}

Ask(c, kind, todo) ==
  /\ c \in open /\ pc[c] = Idle
  /\ MayOverlap \/ \A d \in Consoles : ToSet(pc[d].todo) \cap ToSet(todo) = {}
  /\ pc' = [pc EXCEPT ![c] = [Idle EXCEPT !.kind = kind, !.todo = todo]]
  /\ UNCHANGED <<open, proc, file, log, endpoint, crashes>>

\* *_running: the pid file names a process there is; a file that names none
\* is removed
LaunchAnyway_(c) ==
  /\ pc[c].kind = "start" /\ pc[c].step = "check" /\ Head(pc[c].todo) \in Services
  /\ Goto(c, "launch")
  /\ UNCHANGED <<open, proc, file, log, endpoint, crashes>>
CheckStart(c) ==
  /\ pc[c].kind = "start" /\ pc[c].step = "check" /\ Head(pc[c].todo) \in Services
  /\ LET s == Head(pc[c].todo)
     IN IF Alive(file[s])
          THEN Advance(c) /\ UNCHANGED file
          ELSE Goto(c, "launch") /\ file' = [file EXCEPT ![s] = 0]
  /\ UNCHANGED <<open, proc, log, endpoint, crashes>>

\* Popen, which reaps this console's zombies first
Launch(c) ==
  LET s == Head(pc[c].todo)
      reaped == [p \in DOMAIN proc |->
                   IF proc[p].parent = c /\ proc[p].state = "zombie"
                     THEN [proc[p] EXCEPT !.state = "gone"] ELSE proc[p]]
  IN /\ pc[c].step = "launch" /\ Len(proc) < MaxPids
     /\ proc' = Append(reaped,
          [svc |-> s, parent |-> c,
           state |-> IF s \in {"relayer", "tunnel"} THEN "new" ELSE "up"])
     /\ pc' = [pc EXCEPT ![c].step = "record", ![c].pid = Len(proc) + 1]
     /\ UNCHANGED <<open, file, log, endpoint, crashes>>

Record(c) ==
  /\ pc[c].step = "record"
  /\ file' = [file EXCEPT ![Head(pc[c].todo)] = pc[c].pid]
  /\ Advance(c)
  /\ UNCHANGED <<open, proc, log, endpoint, crashes>>

\* start_relayer_public: tunnel_url() is the first URL in the log, and the
\* log is appended to by every tunnel; without a URL, or when the call fails,
\* nothing is registered
Register(c) ==
  /\ pc[c].kind = "start" /\ pc[c].step = "check" /\ Head(pc[c].todo) = "register"
  /\ endpoint' \in {endpoint} \cup (IF log = <<>> THEN {} ELSE {Head(log)})
  /\ Advance(c)
  /\ UNCHANGED <<open, proc, file, log, crashes>>

\* stop_*: SIGTERM to the pid in the file
Signal(c) ==
  /\ pc[c].kind = "stop" /\ pc[c].step = "check"
  /\ LET s == Head(pc[c].todo)
     IN IF Alive(file[s])
          THEN /\ Goto(c, "unlink")
               /\ proc' = [proc EXCEPT ![file[s]].state =
                             IF file[s] \in Running THEN "stopping" ELSE @]
               /\ UNCHANGED file
          ELSE /\ Advance(c)
               /\ file' = [file EXCEPT ![s] = 0]
               /\ UNCHANGED proc
  /\ UNCHANGED <<open, log, endpoint, crashes>>

\* two seconds later the file is removed, whatever has become of the process
Unlink(c) ==
  /\ pc[c].step = "unlink"
  /\ file' = [file EXCEPT ![Head(pc[c].todo)] = 0]
  /\ Advance(c)
  /\ UNCHANGED <<open, proc, log, endpoint, crashes>>

Open(c) ==
  /\ c \notin open
  /\ open' = open \cup {c}
  /\ UNCHANGED <<pc, proc, file, log, endpoint, crashes>>

\* what it launched runs on, in a session of its own
Quit(c) ==
  /\ c \in open /\ pc[c] = Idle
  /\ open' = open \ {c}
  /\ proc' = [p \in DOMAIN proc |->
                IF proc[p].parent # c THEN proc[p]
                ELSE [proc[p] EXCEPT !.parent = "init",
                        !.state = IF @ = "zombie" THEN "gone" ELSE @]]
  /\ UNCHANGED <<pc, file, log, endpoint, crashes>>

-----------------------------------------------------------------------------
(* The processes. *)

\* relayer_server main: the pid file, then the port; when another relayer has
\* the port the process ends, and removes the file on its way out
ServerStart(p) ==
  /\ proc[p].svc = "relayer" /\ proc[p].state = "new"
  /\ IF \E q \in DOMAIN proc : proc[q].svc = "relayer" /\ proc[q].state \in {"up", "stopping"}
       THEN /\ proc' = [proc EXCEPT ![p] = Dead(proc[p])]
            /\ file' = [file EXCEPT !["relayer"] = 0]
       ELSE /\ proc' = [proc EXCEPT ![p].state = "up"]
            /\ file' = [file EXCEPT !["relayer"] = p]
  /\ UNCHANGED <<open, pc, log, endpoint, crashes>>

\* cloudflared gets a new URL every time it starts, and logs it
TunnelUrl(p) ==
  /\ proc[p].svc = "tunnel" /\ proc[p].state = "new"
  /\ proc' = [proc EXCEPT ![p].state = "up"]
  /\ log' = Append(log, p)
  /\ UNCHANGED <<open, pc, file, endpoint, crashes>>

\* a signalled process ends; any other may crash
Ends(p) ==
  /\ \/ proc[p].state = "stopping" /\ UNCHANGED crashes
     \/ proc[p].state \in {"new", "up"} /\ crashes < MaxCrashes /\ crashes' = crashes + 1
  /\ proc' = [proc EXCEPT ![p] = Dead(proc[p])]
  /\ UNCHANGED <<open, pc, file, log, endpoint>>

-----------------------------------------------------------------------------
Console(c) ==
  \/ \E todo \in Starts : Ask(c, "start", todo)
  \/ \E todo \in Stops : Ask(c, "stop", todo)
  \/ CheckStart(c) \/ Launch(c) \/ Record(c) \/ Register(c)
  \/ Signal(c) \/ Unlink(c)
  \/ Open(c) \/ Quit(c)

Next ==
  \/ \E c \in Consoles : Console(c)
  \/ \E p \in DOMAIN proc : ServerStart(p) \/ TunnelUrl(p) \/ Ends(p)

Spec == Init /\ [][Next]_vars

-----------------------------------------------------------------------------
(* Properties. *)

\* What runs can be stopped: a process of a service that was not asked to
\* stop is the one its pid file names, or its launcher is about to write
\* that, so there is at most one.  A console decides on what it read before
\* it launched, and the file is written by the console and by the server;
\* two consoles that are busy with one service at once (MayOverlap) break it.
Stoppable ==
  \A s \in Services : \A p \in Serving(s) :
    file[s] = p \/ \E c \in Consoles : pc[c].step = "record" /\ pc[c].pid = p

\* tunnel_url, "Return the last public URL from the tunnel log": what is
\* registered on the chain is the URL logged last.
LastUrl == [][endpoint' # endpoint => endpoint' = Last(log)]_vars
=============================================================================
