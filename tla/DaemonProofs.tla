---------------------------- MODULE DaemonProofs ----------------------------
(***************************************************************************)
(* Theorems about Daemon, for any number of commands and ports.            *)
(***************************************************************************)
EXTENDS Daemon, TLAPS

-----------------------------------------------------------------------------
(* Type correctness, and what a process and its port have to do with each  *)
(* other.                                                                  *)

\* Who listens on a port was made for that port and is beyond its boot.
ListenersFit ==
    \A p \in Port : Up(p) =>
        /\ listener[p] \in Command /\ PortOf(listener[p]) = p
        /\ proc[listener[p]] \in {"serving", "stopping", "cleared"}

\* A command that has not got beyond its probe has made nothing, one that has not ended has
\* reported nothing.
NotBegun ==
    \A c \in Command :
        /\ pc[c] \in {"idle", "probe"} => proc[c] = "none"
        /\ pc[c] # "done" => out[c] = "none"

BaseInv == TypeOK /\ ListenersFit /\ NotBegun

LEMMA InitBaseInv == Init => BaseInv
<1> SUFFICES ASSUME Init PROVE BaseInv
  OBVIOUS
<1>1. (CHOOSE p \in Port : TRUE) \in Port
  BY CommandAssumption
<1>2. Idle(CHOOSE p \in Port : TRUE) \in Args
  BY <1>1 DEF Idle, Args, Kinds, Host
<1>3. TypeOK
  BY <1>2 DEF Init, TypeOK, Places, Reports
<1> QED
  BY <1>3 DEF Init, BaseInv, ListenersFit, NotBegun, Up

\* A process that dies leaves its port, and no other.
LEMMA FreedFits ==
  ASSUME BaseInv, NEW s \in Command, proc' = [proc EXCEPT ![s] = "dead"],
         listener' = Freed(s), args' = args
  PROVE  ListenersFit'
BY DEF BaseInv, TypeOK, ListenersFit, Up, Freed, PortOf

\* Command c begins with these arguments.
Invoked(c, k, p, flag, env, t) ==
    /\ k \in {"stop", "status"} => flag = "" /\ env = ""
    /\ t => k = "stop" \/ (k # "status" /\ ServeHost(flag, env) = "all")
    /\ args' = [args EXCEPT ![c] = [kind |-> k, port |-> p,
                                    host |-> ServeHost(flag, env), token |-> t]]
    /\ disturbed' =
        (disturbed \/ k = "serve" \/
         \E d \in Command : Running(d) \/ (pc[d] = "done" /\ args[d].port # p))
    /\ IF k = "serve"
       THEN Go(c, "done") /\ proc' = [proc EXCEPT ![c] = "booting"]
       ELSE Go(c, "probe") /\ UNCHANGED proc

LEMMA Invocation ==
  ASSUME NEW c \in Command, Begin(c)
  PROVE  \E k \in Kinds, p \in Port, flag \in Host \cup {""}, env \in Host \cup {""}, t \in BOOLEAN :
           Invoked(c, k, p, flag, env, t)
BY DEF Begin, Invoked

LEMMA NextBaseInv == BaseInv /\ [Next]_vars => BaseInv'
<1> SUFFICES ASSUME BaseInv, [Next]_vars PROVE BaseInv'
  OBVIOUS
<1>n. None \notin Command
  BY CommandAssumption DEF None
<1> USE DEF BaseInv, TypeOK, NotBegun, cmds, servers, Go, Report, At
<1>s. ASSUME Observe PROVE silence' \in SUBSET Command
  BY <1>s DEF Observe
<1>p. Places = {"idle", "probe", "write", "wait", "unwrite", "post", "gone",
                "unlink", "unlinkStale", "read", "done"}
  BY DEF Places
<1>r. Reports = {"none", "already_running", "started", "failed", "unhealthy",
                 "not_running", "stopped", "refused", "running"}
  BY DEF Reports
\* A step of a command that leaves every process and port as it is.
<1>u. ASSUME UNCHANGED <<args, proc, listener>> PROVE ListenersFit'
  BY <1>u DEF ListenersFit, Up, PortOf
<1>1. ASSUME NEW c \in Command, Begin(c), Observe PROVE BaseInv'
  <2>1. PICK k \in Kinds, p \in Port, flag \in Host \cup {""}, env \in Host \cup {""}, t \in BOOLEAN :
          Invoked(c, k, p, flag, env, t)
    BY <1>1, Invocation
  <2> USE DEF Invoked
  <2>2. pc[c] = "idle" /\ UNCHANGED <<out, told, listener, pidFile, prompt>>
    BY <1>1 DEF Begin
  <2>3. ServeHost(flag, env) \in Host
    BY DEF ServeHost, Host
  <2>4. args' \in [Command -> Args]
    BY <2>1, <2>3 DEF Args
  <2>5. TypeOK' /\ NotBegun'
    BY <1>s, <1>1, <1>p, <2>1, <2>2, <2>4
  <2>6. ListenersFit'
    <3> SUFFICES ASSUME NEW q \in Port, Up(q)'
                 PROVE  /\ listener'[q] \in Command /\ PortOf(listener[q])' = q
                        /\ proc'[listener'[q]] \in {"serving", "stopping", "cleared"}
      BY DEF ListenersFit
    <3>1. /\ listener[q] \in Command /\ PortOf(listener[q]) = q
          /\ proc[listener[q]] \in {"serving", "stopping", "cleared"}
      BY <2>2 DEF ListenersFit, Up
    <3>2. listener[q] # c
      BY <2>2, <3>1
    <3> QED
      BY <2>1, <2>2, <3>1, <3>2 DEF PortOf
  <2> QED
    BY <2>5, <2>6
<1>2. ASSUME NEW c \in Command, Start(c), Observe PROVE BaseInv'
  <2>1. CASE StartFinds(c) \/ StartFails(c) \/ StartWrites(c) \/ StartSees(c) \/ StartUnwrites(c)
    BY <1>2, <1>s, <1>p, <1>r, <1>u, <2>1
       DEF StartFinds, StartFails, StartWrites, StartSees, StartUnwrites
  <2>2. CASE StartSpawns(c)
    <3>1. \A p \in Port : Up(p) => listener[p] # c
      BY <2>2 DEF StartSpawns, ListenersFit
    <3> QED
      BY <1>2, <1>s, <1>p, <2>2
         DEF StartSpawns, ListenersFit, Up, PortOf
  <2>3. CASE StartGivesUp(c)
    <3>1. TypeOK' /\ NotBegun'
      BY <1>2, <1>s, <1>p, <2>3 DEF StartGivesUp, Freed
    <3> QED
      BY <2>3, <3>1, FreedFits DEF StartGivesUp
  <2> QED
    BY <1>2, <2>1, <2>2, <2>3 DEF Start
\* A POST that is accepted.
<1>a. ASSUME NEW c \in Command, Up(PortOf(c)), Accepts(listener[PortOf(c)], c),
             UNCHANGED <<args, listener>>
      PROVE  proc' \in [Command -> {"none", "booting", "serving", "stopping", "cleared", "dead"}]
             /\ ListenersFit' /\ \A d \in Command : proc[d] = "none" => proc'[d] = "none"
  <2>1. PortOf(c) \in Port /\ listener[PortOf(c)] \in Command
    BY <1>a DEF ListenersFit, Args, PortOf
  <2> DEFINE s == listener[PortOf(c)]
  <2>2. /\ s \in Command
        /\ proc' = [proc EXCEPT ![s] = IF @ = "serving" THEN "stopping" ELSE @]
    BY <1>a, <2>1 DEF Accepts
  <2> HIDE DEF s
  <2>3. ListenersFit'
    BY <1>a, <2>2 DEF ListenersFit, Up, PortOf
  <2> QED
    BY <2>2, <2>3
<1>3. ASSUME NEW c \in Command, Stop(c), Observe PROVE BaseInv'
  <2>1. CASE StopProbes(c)
    BY <1>3, <1>s, <1>p, <1>u, <2>1 DEF StopProbes
  <2>2. CASE StopFindsNothing(c) \/ StopRefused(c) \/ StopWaits(c) \/ StopUnlinks(c)
    BY <1>3, <1>s, <1>p, <1>r, <1>u, <2>2
       DEF StopFindsNothing, StopRefused, StopWaits, StopUnlinks
  <2>3. CASE StopAccepted(c)
    BY <1>3, <1>s, <1>p, <1>a, <2>3 DEF StopAccepted
  <2>4. CASE StopFails(c)
    <3>1. CASE UNCHANGED proc
      BY <1>3, <1>s, <1>p, <1>r, <1>u, <2>4, <3>1 DEF StopFails
    <3>2. CASE Up(PortOf(c)) /\ Accepts(listener[PortOf(c)], c)
      BY <1>3, <1>s, <1>p, <1>r, <1>a, <2>4, <3>2 DEF StopFails
    <3> QED
      BY <2>4, <3>1, <3>2 DEF StopFails
  <2> QED
    BY <1>3, <2>1, <2>2, <2>3, <2>4 DEF Stop
<1>4. ASSUME NEW c \in Command, Status(c), Observe PROVE BaseInv'
  <2>1. CASE StatusProbes(c)
    BY <1>4, <1>s, <1>p, <1>r, <1>u, <2>1 DEF StatusProbes
  <2>2. CASE StatusReads(c)
    BY <1>4, <1>s, <1>p, <1>r, <1>u, <2>2 DEF StatusReads, PidRead
  <2> QED
    BY <1>4, <2>1, <2>2 DEF Status
<1>5. ASSUME NEW s \in Command, Server(s), Observe PROVE BaseInv'
  <2>1. CASE Boot(s)
    <3>1. PortOf(s) \in Port
      BY DEF Args, PortOf
    <3>2. ListenersFit'
      BY <2>1, <3>1, <1>n DEF Boot, ListenersFit, Up, PortOf
    <3> QED
      BY <1>5, <1>s, <2>1, <3>2 DEF Boot
  <2>2. CASE BootFails(s)
    <3>1. ListenersFit'
      BY <2>2 DEF BootFails, ListenersFit, Up, PortOf
    <3> QED
      BY <1>5, <1>s, <2>2, <3>1 DEF BootFails
  <2>3. CASE ShutdownRemoves(s)
    <3>1. ListenersFit'
      BY <2>3 DEF ShutdownRemoves, ListenersFit, Up, PortOf
    <3> QED
      BY <1>5, <1>s, <2>3, <3>1 DEF ShutdownRemoves
  <2>4. CASE ShutdownExits(s)
    <3>1. ListenersFit'
      BY <2>4, FreedFits DEF ShutdownExits
    <3> QED
      BY <1>5, <1>s, <2>4, <3>1 DEF ShutdownExits, Freed
  <2> QED
    BY <1>5, <2>1, <2>2, <2>3, <2>4 DEF Server
<1>6. ASSUME NEW s \in Command, Crash(s), Observe PROVE BaseInv'
  <2>1. ListenersFit'
    BY <1>6, FreedFits DEF Crash
  <2> QED
    BY <1>6, <1>s, <2>1 DEF Crash, Freed, Alive
<1>7. CASE UNCHANGED vars
  BY <1>7, <1>u DEF vars, history
<1> QED
  BY <1>1, <1>2, <1>3, <1>4, <1>5, <1>6, <1>7 DEF Next

LEMMA BaseInvHolds == Spec => []BaseInv
BY InitBaseInv, NextBaseInv, PTL DEF Spec

\* Every reachable state of commands and servers is well typed; in particular the pid
\* file names a process that was started, or none (daemon.go:80-84).
THEOREM DaemonTypeCorrect == Spec => []TypeOK
<1>1. BaseInv => TypeOK
  BY DEF BaseInv
<1> QED
  BY <1>1, BaseInvHolds, PTL

-----------------------------------------------------------------------------
(* What a step does to servers and to commands.                            *)

\* A port is lost before another process has it, what was told to stop never serves
\* again, and what is dead stays so.
ServersDecline ==
    /\ \A p \in Port : Up(p) => listener'[p] \in {listener[p], None}
    /\ \A s \in Command :
         /\ proc[s] \in {"stopping", "cleared"} => proc'[s] \in {"stopping", "cleared", "dead"}
         /\ proc[s] = "dead" => proc'[s] = "dead"

LEMMA NextDeclines == BaseInv /\ Next => ServersDecline
<1> SUFFICES ASSUME BaseInv, NEW c \in Command,
                    Begin(c) \/ Start(c) \/ Stop(c) \/ Status(c) \/ Server(c) \/ Crash(c)
             PROVE  ServersDecline
  BY DEF Next
<1> USE DEF BaseInv, TypeOK, ServersDecline
<1>1. CASE UNCHANGED servers
  BY <1>1 DEF servers
<1>2. ASSUME NEW s \in Command, proc[s] \notin {"stopping", "cleared", "dead"}, UNCHANGED listener,
             NEW place, proc' = [proc EXCEPT ![s] = place]
      PROVE  ServersDecline
  BY <1>2
<1>3. ASSUME NEW s \in Command, proc' = [proc EXCEPT ![s] = "dead"], listener' = Freed(s)
      PROVE  ServersDecline
  BY <1>3 DEF Freed
<1>4. ASSUME Up(PortOf(c)), Accepts(listener[PortOf(c)], c), UNCHANGED listener
      PROVE  ServersDecline
  <2>1. PortOf(c) \in Port
    BY DEF Args, PortOf
  <2> DEFINE s == listener[PortOf(c)]
  <2>2. s \in Command /\ proc' = [proc EXCEPT ![s] = IF @ = "serving" THEN "stopping" ELSE @]
    BY <1>4, <2>1 DEF Accepts, ListenersFit
  <2> HIDE DEF s
  <2> QED
    BY <1>4, <2>2
<1>5. CASE Begin(c)
  <2>1. PICK k \in Kinds, p \in Port, flag \in Host \cup {""}, env \in Host \cup {""}, t \in BOOLEAN :
          Invoked(c, k, p, flag, env, t)
    BY <1>5, Invocation
  <2>2. proc[c] = "none" /\ UNCHANGED listener
    BY <1>5 DEF Begin, NotBegun
  <2> QED
    BY <1>1, <1>2, <2>1, <2>2 DEF servers, Invoked
<1>6. CASE Start(c)
  <2>1. CASE StartSpawns(c)
    BY <1>2, <2>1 DEF StartSpawns, NotBegun, At
  <2>2. CASE StartGivesUp(c)
    BY <1>3, <2>2 DEF StartGivesUp
  <2> QED
    BY <1>1, <1>6, <2>1, <2>2 DEF Start, StartFinds, StartFails, StartWrites, StartSees, StartUnwrites, servers
<1>7. CASE Stop(c)
  <2>1. CASE StopAccepted(c)
    BY <1>4, <2>1 DEF StopAccepted
  <2>2. CASE StopFails(c)
    BY <1>1, <1>4, <2>2 DEF StopFails, servers
  <2> QED
    BY <1>1, <1>7, <2>1, <2>2
       DEF Stop, StopProbes, StopFindsNothing, StopRefused, StopWaits, StopUnlinks, servers
<1>8. CASE Status(c)
  BY <1>1, <1>8 DEF Status, StatusProbes, StatusReads, servers
<1>9. CASE Server(c)
  <2>1. CASE Boot(c)
    BY <2>1 DEF Boot, Up
  <2>2. CASE BootFails(c)
    BY <1>2, <2>2 DEF BootFails
  <2>3. CASE ShutdownRemoves(c)
    BY <2>3 DEF ShutdownRemoves
  <2>4. CASE ShutdownExits(c)
    BY <1>3, <2>4 DEF ShutdownExits
  <2> QED
    BY <1>9, <2>1, <2>2, <2>3, <2>4 DEF Server
<1>10. CASE Crash(c)
  BY <1>3, <1>10 DEF Crash
<1> QED
  BY <1>5, <1>6, <1>7, <1>8, <1>9, <1>10

\* What a command asks for is settled when it begins, and it ends once.
LEMMA CommandsKeepTheirWord ==
  ASSUME BaseInv, Next, NEW d \in Command, pc[d] # "idle"
  PROVE  /\ args'[d] = args[d] /\ pc'[d] # "idle"
         /\ pc[d] = "done" => pc'[d] = "done" /\ out'[d] = out[d]
<1> PICK c \in Command :
      Begin(c) \/ Start(c) \/ Stop(c) \/ Status(c) \/ Server(c) \/ Crash(c)
  BY DEF Next
<1> USE DEF BaseInv, TypeOK, At, Go, Report, cmds
<1>1. CASE Begin(c)
  <2>1. PICK k \in Kinds, p \in Port, flag \in Host \cup {""}, env \in Host \cup {""}, t \in BOOLEAN :
          Invoked(c, k, p, flag, env, t)
    BY <1>1, Invocation
  <2>2. c # d /\ UNCHANGED out
    BY <1>1 DEF Begin
  <2> QED
    BY <2>1, <2>2 DEF Invoked
<1>2. CASE Start(c)
  BY <1>2 DEF Start, StartFinds, StartFails, StartSpawns, StartWrites, StartSees, StartGivesUp,
              StartUnwrites
<1>3. CASE Stop(c)
  BY <1>3 DEF Stop, StopProbes, StopFindsNothing, StopAccepted, StopRefused, StopFails, StopWaits,
              StopUnlinks
<1>4. CASE Status(c)
  BY <1>4 DEF Status, StatusProbes, StatusReads
<1>5. CASE Server(c) \/ Crash(c)
  BY <1>5 DEF Server, Boot, BootFails, ShutdownRemoves, ShutdownExits, Crash
<1> QED
  BY <1>1, <1>2, <1>3, <1>4, <1>5

-----------------------------------------------------------------------------
(* A stop that found its port silent.                                      *)

\* The process that answered the stop is on its way out until the port is silent.
Heard(c) ==
    /\ pc[c] \in {"unlinkStale", "unlink"} => c \in silence
    /\ pc[c] = "gone" =>
         \/ c \in silence
         \/ Up(PortOf(c)) /\ proc[listener[PortOf(c)]] \in {"stopping", "cleared"}
    /\ pc[c] = "done" /\ out[c] \in {"not_running", "stopped"} => c \in silence

StopsHear == \A c \in Command : prompt /\ args[c].kind = "stop" => Heard(c)

\* What the steps of another command or of a server leave of it.
LEMMA OthersLeaveHeard ==
  ASSUME BaseInv, BaseInv', Next, Observe, NEW c \in Command, args[c].kind = "stop", pc[c] # "idle",
         Heard(c), pc'[c] = pc[c], out'[c] = out[c]
  PROVE  Heard(c)'
<1>1. args'[c] = args[c] /\ PortOf(c) \in Port
  BY CommandsKeepTheirWord DEF BaseInv, TypeOK, Args, PortOf
<1>2. silence \subseteq silence'
  BY DEF Observe
<1>3. ASSUME pc[c] = "gone", c \notin silence'
      PROVE  Up(PortOf(c))' /\ proc'[listener'[PortOf(c)']] \in {"stopping", "cleared"}
  <2> DEFINE p == PortOf(c)
             s == listener[p]
  <2>1. p' = p
    BY <1>1 DEF PortOf
  <2>2. Up(p) /\ s \in Command /\ proc[s] \in {"stopping", "cleared"}
    BY <1>1, <1>2, <1>3 DEF Heard, BaseInv, ListenersFit
  <2>3. Up(p)'
    BY <1>1, <1>3 DEF Observe, Running
  <2>4. listener'[p] = s /\ proc'[s] \in {"stopping", "cleared", "dead"}
    BY <1>1, <2>1, <2>2, <2>3, NextDeclines DEF ServersDecline, Up
  <2>5. proc'[s] # "dead"
    BY <1>1, <2>1, <2>3, <2>4 DEF BaseInv, ListenersFit
  <2> QED
    BY <2>1, <2>3, <2>4, <2>5
<1> QED
  BY <1>1, <1>2, <1>3 DEF Heard

\* A step of the stop itself.
LEMMA StopHears ==
  ASSUME BaseInv, NEW c \in Command, Stop(c), Observe, prompt, Heard(c)
  PROVE  Heard(c)'
<1> USE DEF BaseInv, TypeOK, Heard, At, Go, Report
<1>k. args[c].kind = "stop" /\ PortOf(c) \in Port
  BY DEF Stop, StopProbes, StopFindsNothing, StopAccepted, StopRefused, StopFails, StopWaits,
         StopUnlinks, Args, PortOf
<1>1. CASE StopProbes(c)
  <2>1. CASE Go(c, "post")
    BY <1>1, <2>1 DEF StopProbes
  <2>2. CASE Silent(PortOf(c)) /\ Go(c, "unlinkStale")
    <3>1. ~Up(PortOf(c))
      BY <2>2 DEF Silent
    <3>2. args' = args /\ listener' = listener /\ pc'[c] = "unlinkStale"
      BY <1>1, <2>2 DEF StopProbes, servers
    <3>3. c \in silence'
      BY <1>k, <3>1, <3>2 DEF Observe, Running, Up, PortOf
    <3> QED
      BY <3>2, <3>3
  <2> QED
    BY <1>1, <2>1, <2>2 DEF StopProbes
<1>2. CASE StopFindsNothing(c) \/ StopRefused(c) \/ StopFails(c) \/ StopUnlinks(c)
  BY <1>2 DEF StopFindsNothing, StopRefused, StopFails, StopUnlinks, Observe
<1>3. CASE StopAccepted(c)
  <2> DEFINE s == listener[PortOf(c)]
  <2>1. /\ s \in Command /\ Up(PortOf(c)) /\ UNCHANGED <<args, listener>>
        /\ proc[s] \in {"serving", "stopping", "cleared"}
        /\ proc' = [proc EXCEPT ![s] = IF @ = "serving" THEN "stopping" ELSE @]
    BY <1>3, <1>k DEF StopAccepted, Accepts, ListenersFit
  <2>2. Up(PortOf(c))' /\ proc'[listener'[PortOf(c)']] \in {"stopping", "cleared"}
    BY <2>1 DEF Up, PortOf
  <2>3. pc'[c] = "gone"
    BY <1>3 DEF StopAccepted
  <2> QED
    BY <2>2, <2>3
<1>4. CASE StopWaits(c)
  <2>1. c \in silence
    BY <1>4 DEF StopWaits
  <2> QED
    BY <1>4, <2>1 DEF StopWaits, Observe
<1> QED
  BY <1>1, <1>2, <1>3, <1>4 DEF Stop

\* The steps of the program leave a command that is not theirs alone.
LEMMA OthersStandStill ==
  ASSUME BaseInv, NEW c \in Command, NEW d \in Command, d # c,
         Begin(c) \/ Start(c) \/ Stop(c) \/ Status(c)
  PROVE  args'[d] = args[d] /\ pc'[d] = pc[d] /\ out'[d] = out[d]
<1> USE DEF BaseInv, TypeOK, At, Go, Report, cmds
<1>1. CASE Begin(c)
  <2>1. PICK k \in Kinds, p \in Port, flag \in Host \cup {""}, env \in Host \cup {""}, t \in BOOLEAN :
          Invoked(c, k, p, flag, env, t)
    BY <1>1, Invocation
  <2> QED
    BY <1>1, <2>1 DEF Begin, Invoked
<1>2. CASE Start(c)
  BY <1>2 DEF Start, StartFinds, StartFails, StartSpawns, StartWrites, StartSees, StartGivesUp,
              StartUnwrites
<1>3. CASE Stop(c)
  BY <1>3 DEF Stop, StopProbes, StopFindsNothing, StopAccepted, StopRefused, StopFails, StopWaits,
              StopUnlinks
<1>4. CASE Status(c)
  BY <1>4 DEF Status, StatusProbes, StatusReads
<1> QED
  BY <1>1, <1>2, <1>3, <1>4

LEMMA BeginHears ==
  ASSUME BaseInv, NEW c \in Command, Begin(c)
  PROVE  args'[c].kind = "stop" => pc'[c] = "probe"
<1>1. PICK k \in Kinds, p \in Port, flag \in Host \cup {""}, env \in Host \cup {""}, t \in BOOLEAN :
        Invoked(c, k, p, flag, env, t)
  BY Invocation
<1> QED
  BY <1>1 DEF BaseInv, TypeOK, Go, Invoked

LEMMA NextHears ==
  BaseInv /\ BaseInv' /\ StopsHear /\ [Next]_vars => StopsHear'
<1>1. ASSUME BaseInv, BaseInv', StopsHear, Next, NEW d \in Command, prompt', args'[d].kind = "stop"
      PROVE  Heard(d)'
  <2>1. PICK c \in Command :
          Begin(c) \/ Start(c) \/ Stop(c) \/ Status(c) \/ Server(c) \/ Crash(c)
    BY <1>1 DEF Next
  <2>2. Observe
    BY <1>1 DEF Next
  <2>3. prompt
    BY <1>1, <2>1
       DEF Begin, Start, StartFinds, StartFails, StartSpawns, StartWrites, StartSees,
           StartGivesUp, StartUnwrites, Stop, StopProbes, StopFindsNothing, StopAccepted,
           StopRefused, StopFails, StopWaits, StopUnlinks, Status, StatusProbes, StatusReads,
           Server, Boot, BootFails, ShutdownRemoves, ShutdownExits, Crash
  <2>4. ASSUME args'[d] = args[d], pc'[d] = pc[d], out'[d] = out[d] PROVE Heard(d)'
    <3>1. CASE pc[d] = "idle"
      BY <2>4, <3>1 DEF Heard
    <3>2. CASE pc[d] # "idle"
      BY <1>1, <2>2, <2>3, <2>4, <3>2, OthersLeaveHeard DEF StopsHear
    <3> QED
      BY <3>1, <3>2
  <2>5. CASE d # c /\ (Begin(c) \/ Start(c) \/ Stop(c) \/ Status(c))
    BY <1>1, <2>4, <2>5, OthersStandStill
  <2>6. CASE Server(c) \/ Crash(c)
    BY <2>4, <2>6 DEF Server, Boot, BootFails, ShutdownRemoves, ShutdownExits, Crash, cmds
  <2>7. CASE d = c /\ Begin(c)
    BY <1>1, <2>7, BeginHears DEF Heard
  <2>8. CASE d = c /\ (Start(c) \/ Status(c))
    <3>1. args[d].kind # "stop" /\ args' = args
      BY <2>8 DEF Start, StartFinds, StartFails, StartSpawns, StartWrites, StartSees, StartGivesUp,
                  StartUnwrites, Status, StatusProbes, StatusReads, At
    <3> QED
      BY <1>1, <3>1
  <2>9. CASE d = c /\ Stop(c)
    <3>1. args[d].kind = "stop"
      BY <2>9 DEF Stop, StopProbes, StopFindsNothing, StopAccepted, StopRefused, StopFails,
                  StopWaits, StopUnlinks, At
    <3> QED
      BY <1>1, <2>2, <2>3, <2>9, <3>1, StopHears DEF StopsHear
  <2> QED
    BY <2>1, <2>5, <2>6, <2>7, <2>8, <2>9
<1>2. ASSUME StopsHear, UNCHANGED vars PROVE StopsHear'
  BY <1>2 DEF vars, cmds, servers, history, StopsHear, Heard, Up, PortOf
<1> QED
  BY <1>1, <1>2 DEF StopsHear

\* A stop that reports "running: false" had its port silent at some moment while it ran,
\* whatever the other commands and the servers did meanwhile, as long as nothing outlasts the
\* code's timeouts (daemonStop, daemon.go:105-135).
THEOREM StopsTellTheTruth == Spec => []StoppedWasSilent
<1>1. Init => StopsHear
  BY DEF Init, StopsHear, Heard
<1>2. BaseInv /\ StopsHear => StoppedWasSilent
  <2> SUFFICES ASSUME BaseInv, StopsHear, NEW c \in Command, prompt, args[c].kind = "stop",
                      out[c] \in {"not_running", "stopped"}
               PROVE  c \in silence
    BY DEF StoppedWasSilent
  <2>1. pc[c] = "done"
    BY DEF BaseInv, NotBegun
  <2> QED
    BY <2>1 DEF StopsHear, Heard
<1> QED
  BY <1>1, <1>2, NextHears, BaseInvHolds, PTL DEF Spec

-----------------------------------------------------------------------------
(* What a start that gives up leaves behind.                               *)

\* From its Kill on the process is dead, and from its Remove on the file names another.
KilledForGood ==
    \A c \in Command :
        /\ pc[c] = "unwrite" => args[c].kind = "start" /\ proc[c] = "dead"
        /\ out[c] = "unhealthy" => proc[c] = "dead" /\ pidFile # c

LEMMA NextKills == BaseInv /\ KilledForGood /\ [Next]_vars => KilledForGood'
<1>1. ASSUME BaseInv, KilledForGood, Next, NEW c \in Command
      PROVE  /\ pc'[c] = "unwrite" => args'[c].kind = "start" /\ proc'[c] = "dead"
             /\ out'[c] = "unhealthy" => proc'[c] = "dead" /\ pidFile' # c
  <2>1. PICK d \in Command :
          Begin(d) \/ Start(d) \/ Stop(d) \/ Status(d) \/ Server(d) \/ Crash(d)
    BY <1>1 DEF Next
  <2>2. proc[c] = "dead" => proc'[c] = "dead"
    BY <1>1, NextDeclines DEF ServersDecline
  <2>n. None \notin Command
    BY CommandAssumption DEF None
  <2> USE <1>1 DEF BaseInv, TypeOK, NotBegun, KilledForGood, At, Go, Report, cmds
  <2>3. CASE UNCHANGED <<args, pc, out>> /\ pidFile' \in {pidFile, None}
    BY <2>2, <2>3, <2>n
  <2>4. CASE Begin(d)
    <3>1. PICK k \in Kinds, p \in Port, flag \in Host \cup {""}, env \in Host \cup {""}, t \in BOOLEAN :
            Invoked(d, k, p, flag, env, t)
      BY <2>4, Invocation
    <3>2. UNCHANGED <<out, pidFile>> /\ pc[d] = "idle" /\ pc'[d] \in {"done", "probe"}
      BY <2>4, <3>1 DEF Begin, Invoked
    <3>3. c # d => pc'[c] = pc[c] /\ args'[c] = args[c]
      BY <3>1 DEF Invoked
    <3> QED
      BY <2>2, <3>2, <3>3
  <2>5. CASE Start(d)
    <3>1. CASE StartGivesUp(d)
      BY <2>2, <3>1 DEF StartGivesUp
    <3>2. CASE StartUnwrites(d)
      BY <2>2, <3>2, <2>n DEF StartUnwrites, servers
    <3>3. CASE StartWrites(d)
      BY <2>2, <3>3 DEF StartWrites, servers
    <3> QED
      BY <2>2, <2>5, <3>1, <3>2, <3>3
         DEF Start, StartFinds, StartFails, StartSpawns, StartSees, servers
  <2>6. CASE Stop(d)
    BY <2>2, <2>6, <2>n
       DEF Stop, StopProbes, StopFindsNothing, StopAccepted, StopRefused, StopFails,
           StopWaits, StopUnlinks, servers
  <2>7. CASE Status(d)
    BY <2>2, <2>7 DEF Status, StatusProbes, StatusReads, servers
  <2>8. CASE Server(d) \/ Crash(d)
    BY <2>3, <2>8 DEF Server, Boot, BootFails, ShutdownRemoves, ShutdownExits, Crash
  <2> QED
    BY <2>1, <2>4, <2>5, <2>6, <2>7, <2>8
<1>2. ASSUME KilledForGood, UNCHANGED vars PROVE KilledForGood'
  BY <1>2 DEF vars, cmds, servers, KilledForGood
<1> QED
  BY <1>1, <1>2 DEF KilledForGood

\* A start that gave up leaves neither its process nor the pid file naming it, whatever
\* other commands and servers do meanwhile (daemonStart, daemon.go:89-96).
THEOREM GivingUpLeavesNothing == Spec => []GivenUpIsGone
<1>1. Init => KilledForGood
  BY DEF Init, KilledForGood
<1>2. BaseInv /\ KilledForGood => GivenUpIsGone
  <2> SUFFICES ASSUME BaseInv, KilledForGood, NEW c \in Command, out[c] = "unhealthy",
                      NEW p \in Port, listener[p] = c
               PROVE  FALSE
    BY DEF GivenUpIsGone, KilledForGood
  <2>1. c # None
    BY CommandAssumption DEF None
  <2> QED
    BY <2>1 DEF BaseInv, ListenersFit, KilledForGood, Up
<1> QED
  BY <1>1, <1>2, NextKills, BaseInvHolds, PTL DEF Spec

-----------------------------------------------------------------------------
(* Off loopback, only the token stops a server.                            *)

\* Command c is a stop that may have been accepted by process s.
Asked(s, c) ==
    /\ args[c].kind = "stop" /\ args[c].token
    /\ PortOf(c) = PortOf(s)
    /\ pc[c] \in {"gone", "unlink", "done"}

\* A command that has asked stays one that has.
LEMMA AskedStays ==
  ASSUME BaseInv, Next, NEW s \in Command, NEW c \in Command, Asked(s, c), pc[s] # "idle"
  PROVE  Asked(s, c)'
<1>1. args'[c] = args[c] /\ args'[s] = args[s]
  BY CommandsKeepTheirWord DEF Asked
<1>2. pc'[c] \in {"gone", "unlink", "done"}
  <2>1. PICK d \in Command :
          Begin(d) \/ Start(d) \/ Stop(d) \/ Status(d) \/ Server(d) \/ Crash(d)
    BY DEF Next
  <2> USE DEF Asked, BaseInv, TypeOK, At, Go, Report, cmds
  <2>2. CASE d # c /\ (Begin(d) \/ Start(d) \/ Stop(d) \/ Status(d))
    BY <2>2, OthersStandStill
  <2>3. CASE Server(d) \/ Crash(d)
    BY <2>3 DEF Server, Boot, BootFails, ShutdownRemoves, ShutdownExits, Crash
  <2>4. CASE d = c /\ (Begin(c) \/ Start(c) \/ Status(c))
    BY <2>4 DEF Begin, Start, StartFinds, StartFails, StartSpawns, StartWrites, StartSees,
                StartGivesUp, StartUnwrites, Status, StatusProbes, StatusReads
  <2>5. CASE d = c /\ Stop(c)
    BY <2>5 DEF Stop, StopProbes, StopFindsNothing, StopAccepted, StopRefused, StopFails,
                StopWaits, StopUnlinks
  <2> QED
    BY <2>1, <2>2, <2>3, <2>4, <2>5
<1> QED
  BY <1>1, <1>2 DEF Asked, PortOf

\* A process leaves the state of serving for the way out only when a stop that may do so asks it.
LEMMA OnlyAskedStops ==
  ASSUME BaseInv, Next, NEW s \in Command,
         proc'[s] \in {"stopping", "cleared"}, proc[s] \notin {"stopping", "cleared"}
  PROVE  /\ pc[s] # "idle"
         /\ \E c \in Command :
              /\ args[c].kind = "stop" /\ PortOf(c) = PortOf(s) /\ MayShutdown(s, c)
              /\ pc[c] # "idle" /\ pc'[c] \in {"gone", "done"}
<1>1. PICK c \in Command :
        Begin(c) \/ Start(c) \/ Stop(c) \/ Status(c) \/ Server(c) \/ Crash(c)
  BY DEF Next
<1> USE DEF BaseInv, TypeOK, At, Go, Report, servers
<1>2. CASE StopAccepted(c) \/ StopFails(c)
  <2> DEFINE l == listener[PortOf(c)]
  <2>1. PortOf(c) \in Port
    BY DEF Args, PortOf
  <2>2. args[c].kind = "stop" /\ pc[c] # "idle" /\ pc'[c] \in {"gone", "done"}
    BY <1>2 DEF StopAccepted, StopFails
  <2>3. Up(PortOf(c)) /\ Accepts(l, c)
    BY <1>2 DEF StopAccepted, StopFails
  <2>4. l \in Command /\ PortOf(l) = PortOf(c) /\ pc[l] # "idle"
    BY <2>1, <2>3 DEF ListenersFit, NotBegun
  <2>5. l = s /\ MayShutdown(l, c)
    BY <2>3, <2>4 DEF Accepts
  <2> QED
    BY <2>2, <2>4, <2>5
<1>3. ASSUME UNCHANGED proc \/ \E d \in Command, place \in {"none", "booting", "serving", "dead"} :
                                 proc' = [proc EXCEPT ![d] = place]
      PROVE  FALSE
  BY <1>3
<1>4. CASE Begin(c)
  <2>1. PICK k \in Kinds, p \in Port, flag \in Host \cup {""}, env \in Host \cup {""}, t \in BOOLEAN :
          Invoked(c, k, p, flag, env, t)
    BY <1>4, Invocation
  <2> QED
    BY <1>3, <2>1 DEF Invoked
<1>5. CASE Start(c)
  BY <1>3, <1>5
     DEF Start, StartFinds, StartFails, StartSpawns, StartWrites, StartSees, StartGivesUp,
         StartUnwrites
<1>6. CASE Stop(c) /\ ~(StopAccepted(c) \/ StopFails(c))
  BY <1>3, <1>6 DEF Stop, StopProbes, StopFindsNothing, StopRefused, StopWaits, StopUnlinks
<1>7. CASE Status(c)
  BY <1>3, <1>7 DEF Status, StatusProbes, StatusReads
<1>8. CASE Server(c)
  <2>1. CASE ShutdownRemoves(c)
    BY <2>1 DEF ShutdownRemoves
  <2>2. CASE Boot(c) \/ BootFails(c) \/ ShutdownExits(c)
    BY <1>3, <2>2 DEF Boot, BootFails, ShutdownExits
  <2> QED
    BY <1>8, <2>1, <2>2 DEF Server
<1>9. CASE Crash(c)
  BY <1>3, <1>9 DEF Crash
<1> QED
  BY <1>1, <1>2, <1>4, <1>5, <1>6, <1>7, <1>8, <1>9

LEMMA NextNeedsTheToken ==
  BaseInv /\ OnlyTheTokenStops /\ [Next]_vars => OnlyTheTokenStops'
<1>1. ASSUME BaseInv, OnlyTheTokenStops, Next, NEW s \in Command,
             proc'[s] \in {"stopping", "cleared"}, args'[s].host = "all"
      PROVE  args'[s].token /\ \E c \in Command : Asked(s, c)'
  <2>1. pc[s] # "idle"
    <3>1. CASE proc[s] \in {"stopping", "cleared"}
      BY <1>1, <3>1 DEF BaseInv, NotBegun
    <3>2. CASE proc[s] \notin {"stopping", "cleared"}
      BY <1>1, <3>2, OnlyAskedStops
    <3> QED
      BY <3>1, <3>2
  <2>2. args'[s] = args[s]
    BY <1>1, <2>1, CommandsKeepTheirWord
  <2>3. CASE proc[s] \in {"stopping", "cleared"}
    <3>1. args[s].token /\ \E c \in Command : Asked(s, c)
      BY <1>1, <2>2, <2>3 DEF OnlyTheTokenStops, Asked
    <3> QED
      BY <1>1, <2>1, <2>2, <3>1, AskedStays
  <2>4. CASE proc[s] \notin {"stopping", "cleared"}
    <3>1. PICK c \in Command :
            /\ args[c].kind = "stop" /\ PortOf(c) = PortOf(s) /\ MayShutdown(s, c)
            /\ pc[c] # "idle" /\ pc'[c] \in {"gone", "done"}
      BY <1>1, <2>4, OnlyAskedStops
    <3>2. args[s].token /\ args[c].token
      BY <1>1, <2>2, <3>1 DEF MayShutdown
    <3>3. args'[c] = args[c]
      BY <1>1, <3>1, CommandsKeepTheirWord
    <3> QED
      BY <2>2, <3>1, <3>2, <3>3 DEF Asked, PortOf
  <2> QED
    BY <2>3, <2>4
<1>2. ASSUME OnlyTheTokenStops, UNCHANGED vars PROVE OnlyTheTokenStops'
  BY <1>2 DEF vars, cmds, servers, OnlyTheTokenStops, PortOf
<1> QED
  BY <1>1, <1>2 DEF OnlyTheTokenStops, Asked

\* "403, and the process MUST NOT stop": a server off loopback is on its way out only if it
\* was started with a token and a stop that knows it asked (handleShutdown, server.go:133-150).
THEOREM StrangersStopNothing == Spec => []OnlyTheTokenStops
<1>1. Init => OnlyTheTokenStops
  BY DEF Init, OnlyTheTokenStops
<1> QED
  BY <1>1, NextNeedsTheToken, BaseInvHolds, PTL DEF Spec

-----------------------------------------------------------------------------
(* The pid file has no owner, no lock and no port in it, and is right all  *)
(* the same as long as commands come one after the other and nothing is    *)
(* slow: then where the one running command is tells what the servers and  *)
(* the file are like.                                                      *)

\* The converse of ListenersFit: a process beyond its boot has its port.
ServersListen ==
    \A s \in Command :
      proc[s] \in {"serving", "stopping", "cleared"} => listener[PortOf(s)] = s

\* The one process is s, and at one of these places of its life.
Only(s, places) ==
    /\ proc[s] \in places
    /\ \A d \in Command \ {s} : proc[d] \in {"none", "dead"}

\* No process and no file, or one that serves and is named.
Nobody == pidFile = None /\ \A d \in Command : proc[d] \in {"none", "dead"}
Named  == \E s \in Command : Only(s, {"serving"}) /\ pidFile = s

\* The one process is on its way out, and has removed the file when it is at the end.
Leaving ==
    \E s \in Command : Only(s, {"stopping"}) \/ (Only(s, {"cleared"}) /\ pidFile = None)

\* What the running command c can rely on.
Phase(c) ==
    /\ pc[c] = "probe" => Nobody \/ Named
    /\ pc[c] = "write" => Only(c, {"booting", "serving"}) /\ pidFile = None
    /\ pc[c] = "wait"  => Only(c, {"booting", "serving"}) /\ pidFile = c
    /\ pc[c] \in {"post", "read"} => Named
    /\ pc[c] = "gone" => Nobody \/ Leaving
    /\ pc[c] \in {"unlink", "unlinkStale"} => Nobody
    /\ pc[c] # "unwrite"

OnePort == \A c, d \in Command : pc[c] # "idle" /\ pc[d] # "idle" => PortOf(c) = PortOf(d)
OneRuns == \A c, d \in Command : Running(c) /\ Running(d) => c = d
Phases  == /\ \A c \in Command : Running(c) => Phase(c)
           /\ (\A c \in Command : ~Running(c)) => Nobody \/ Named

OneByOne == prompt /\ ~disturbed => OnePort /\ OneRuns /\ Phases

FileInv == BaseInv /\ ServersListen /\ OneByOne

-----------------------------------------------------------------------------
LEMMA NextServersListen == BaseInv /\ ServersListen /\ [Next]_vars => ServersListen'
<1> USE DEF BaseInv, TypeOK, At, Go, Report, servers
<1>1. ASSUME BaseInv, ServersListen, NEW c \in Command,
             Begin(c) \/ Start(c) \/ Stop(c) \/ Status(c) \/ Server(c) \/ Crash(c)
      PROVE  ServersListen'
  <2>1. ASSUME NEW s \in Command, proc' = [proc EXCEPT ![s] = "dead"], listener' = Freed(s),
               UNCHANGED args
        PROVE  ServersListen'
    BY <1>1, <2>1 DEF ServersListen, ListenersFit, Freed, Up, PortOf, Args
  <2>2. ASSUME UNCHANGED <<args, proc, listener>> PROVE ServersListen'
    BY <1>1, <2>2 DEF ServersListen, PortOf
  <2>3. ASSUME NEW s \in Command, NEW place \in {"booting", "dead"}, UNCHANGED listener,
               proc' = [proc EXCEPT ![s] = place],
               \A d \in Command : d # s => args'[d] = args[d]
        PROVE  ServersListen'
    BY <1>1, <2>3 DEF ServersListen, PortOf
  <2>4. ASSUME Accepts(listener[PortOf(c)], c), UNCHANGED <<args, listener>>
        PROVE  ServersListen'
    BY <1>1, <2>4 DEF Accepts, ServersListen, PortOf
  <2>5. CASE Begin(c)
    <3>1. PICK k \in Kinds, p \in Port, flag \in Host \cup {""}, env \in Host \cup {""}, t \in BOOLEAN :
            Invoked(c, k, p, flag, env, t)
      BY <2>5, Invocation
    <3>2. UNCHANGED listener /\ proc[c] = "none"
      BY <1>1, <2>5 DEF Begin, NotBegun
    <3>3. CASE k = "serve"
      BY <1>1, <2>3, <3>1, <3>2, <3>3 DEF Invoked
    <3>4. CASE k # "serve"
      BY <1>1, <3>1, <3>2, <3>4 DEF Invoked, ServersListen, PortOf
    <3> QED
      BY <3>3, <3>4
  <2>6. CASE Start(c)
    BY <1>1, <2>1, <2>2, <2>3, <2>6
       DEF Start, StartFinds, StartFails, StartSpawns, StartWrites, StartSees, StartGivesUp,
           StartUnwrites
  <2>7. CASE Stop(c)
    BY <2>2, <2>4, <2>7 DEF Stop, StopProbes, StopFindsNothing, StopAccepted, StopRefused,
                            StopFails, StopWaits, StopUnlinks
  <2>8. CASE Status(c)
    BY <2>2, <2>8 DEF Status, StatusProbes, StatusReads
  <2>9. CASE Boot(c)
    <3>1. PortOf(c) \in Port
      BY <1>1 DEF Args, PortOf
    <3>2. \A s \in Command : proc[s] \in {"serving", "stopping", "cleared"} =>
            PortOf(s) # PortOf(c)
      BY <1>1, <2>9, CommandAssumption DEF Boot, ServersListen, Up, None
    <3> QED
      BY <1>1, <2>9, <3>1, <3>2 DEF Boot, ServersListen, PortOf, cmds
  <2>10. CASE BootFails(c)
    BY <1>1, <2>3, <2>10 DEF BootFails, cmds
  <2>11. CASE ShutdownRemoves(c)
    BY <1>1, <2>11 DEF ShutdownRemoves, ServersListen, PortOf, cmds
  <2>12. CASE ShutdownExits(c) \/ Crash(c)
    BY <2>1, <2>12 DEF ShutdownExits, Crash, cmds
  <2> QED
    BY <1>1, <2>5, <2>6, <2>7, <2>8, <2>9, <2>10, <2>11, <2>12 DEF Server
<1>2. ASSUME ServersListen, UNCHANGED vars PROVE ServersListen'
  BY <1>2 DEF ServersListen, PortOf, vars, cmds
<1> QED
  BY <1>1, <1>2 DEF Next

-----------------------------------------------------------------------------
(* What the guards of the commands see.                                    *)

\* Nobody's port answers; the port of everybody answers where one process serves.
LEMMA NobodyIsSilent ==
  ASSUME FileInv, \A d \in Command : proc[d] \in {"none", "dead"}, NEW p \in Port
  PROVE  ~Up(p)
BY DEF FileInv, BaseInv, ListenersFit

LEMMA OnlyOneAnswers ==
  ASSUME FileInv, OnePort, NEW s \in Command, NEW c \in Command, pc[c] # "idle",
         Only(s, {"serving", "stopping", "cleared"})
  PROVE  Up(PortOf(c)) /\ listener[PortOf(c)] = s
<1>1. pc[s] # "idle"
  BY DEF FileInv, BaseInv, NotBegun, Only
<1>2. PortOf(s) = PortOf(c)
  BY <1>1 DEF OnePort
<1> QED
  BY <1>2, CommandAssumption DEF FileInv, ServersListen, Only, Up, None

\* Who answers while there is one process is that process.
LEMMA WhoAnswersIsTheOne ==
  ASSUME FileInv, NEW s \in Command, NEW places, Only(s, places), NEW p \in Port, Up(p)
  PROVE  listener[p] = s /\ proc[s] \in {"serving", "stopping", "cleared"}
BY DEF FileInv, BaseInv, ListenersFit, Only

-----------------------------------------------------------------------------
(* One step of the one command.                                            *)

\* A command can rely on what its place says, and leaves all in order when it ends.
Keeps(c) == /\ Running(c) => Phase(c)
            /\ ~Running(c) => Nobody \/ Named

\* A step that leaves the servers and the file as they are leaves what is said of them.
LEMMA FactsKept ==
  ASSUME UNCHANGED <<proc, pidFile>>
  PROVE  /\ Nobody => Nobody'
         /\ Named => Named'
         /\ Leaving => Leaving'
         /\ \A s \in Command : \A places : Only(s, places) => Only(s, places)'
BY DEF Nobody, Named, Leaving, Only

LEMMA StartKeeps ==
  ASSUME FileInv, prompt, ~disturbed, OnePort, NEW c \in Command, Running(c), Phase(c), Start(c)
  PROVE  Keeps(c)'
<1> USE DEF FileInv, BaseInv, TypeOK, At, Go, Report
<1>p. PortOf(c) \in Port /\ pc[c] # "idle"
  BY DEF Args, PortOf, Running
<1>1. CASE StartFinds(c) \/ StartFails(c)
  <2>1. Nobody \/ Named
    BY <1>1 DEF StartFinds, StartFails, Phase
  <2>2. UNCHANGED <<proc, pidFile>> /\ pc'[c] = "done"
    BY <1>1 DEF StartFinds, StartFails, servers
  <2> QED
    BY <2>1, <2>2, FactsKept DEF Keeps, Running
<1>2. CASE StartSpawns(c)
  <2>1. Nobody
    <3>1. Nobody \/ Named
      BY <1>2 DEF StartSpawns, Phase
    <3>2. ~Up(PortOf(c))
      BY <1>2 DEF StartSpawns, Silent
    <3>3. ASSUME NEW s \in Command, Only(s, {"serving"}) PROVE FALSE
      <4>1. Only(s, {"serving", "stopping", "cleared"})
        BY <3>3 DEF Only
      <4> QED
        BY <1>p, <3>2, <4>1, OnlyOneAnswers
    <3> QED
      BY <3>1, <3>3 DEF Named
  <2>2. Only(c, {"booting", "serving"})' /\ pidFile' = None /\ pc'[c] = "write"
    BY <1>2, <2>1 DEF StartSpawns, Nobody, Only
  <2> QED
    BY <2>2 DEF Keeps, Running, Phase
<1>3. CASE StartWrites(c)
  <2>1. Only(c, {"booting", "serving"})
    BY <1>3 DEF StartWrites, Phase
  <2>2. UNCHANGED proc /\ pidFile' = c /\ pc'[c] = "wait"
    BY <1>3 DEF StartWrites, servers
  <2> QED
    BY <2>1, <2>2 DEF Keeps, Running, Phase, Only
<1>4. CASE StartSees(c)
  <2>1. Only(c, {"booting", "serving"}) /\ pidFile = c /\ Up(PortOf(c))
    BY <1>4 DEF StartSees, Phase
  <2>2. proc[c] \in {"serving", "stopping", "cleared"}
    BY <1>p, <2>1, WhoAnswersIsTheOne
  <2>3. Named
    BY <2>1, <2>2 DEF Named, Only
  <2>4. UNCHANGED <<proc, pidFile>> /\ pc'[c] = "done"
    BY <1>4 DEF StartSees, servers
  <2> QED
    BY <2>3, <2>4, FactsKept DEF Keeps, Running
<1>5. CASE StartGivesUp(c)
  BY <1>5 DEF StartGivesUp, Alive, Phase, Only
<1>6. CASE StartUnwrites(c)
  BY <1>6 DEF StartUnwrites, Phase
<1> QED
  BY <1>1, <1>2, <1>3, <1>4, <1>5, <1>6 DEF Start

LEMMA StopKeeps ==
  ASSUME FileInv, prompt, ~disturbed, OnePort, NEW c \in Command, Running(c), Phase(c), Stop(c)
  PROVE  Keeps(c)'
<1> USE DEF FileInv, BaseInv, TypeOK, At, Go, Report
<1>p. PortOf(c) \in Port /\ pc[c] # "idle"
  BY DEF Args, PortOf, Running
\* What the stop's port says of who serves.
<1>s. ASSUME NEW s \in Command, Only(s, {"serving"})
      PROVE  Up(PortOf(c)) /\ listener[PortOf(c)] = s /\ proc[s] = "serving"
  <2>1. Only(s, {"serving", "stopping", "cleared"})
    BY <1>s DEF Only
  <2> QED
    BY <1>p, <1>s, <2>1, OnlyOneAnswers DEF Only
<1>1. CASE StopProbes(c)
  <2>1. Nobody \/ Named
    BY <1>1 DEF StopProbes, Phase
  <2>2. UNCHANGED <<proc, pidFile>>
    BY <1>1 DEF StopProbes, servers
  <2>3. CASE Up(PortOf(c)) /\ Go(c, "post")
    <3>1. Named
      BY <1>p, <2>1, <2>3, NobodyIsSilent DEF Nobody
    <3>2. pc'[c] = "post"
      BY <2>3
    <3> QED
      BY <2>2, <3>1, <3>2, FactsKept DEF Keeps, Running, Phase
  <2>4. CASE Silent(PortOf(c)) /\ Go(c, "unlinkStale")
    <3>1. Nobody
      BY <1>s, <2>1, <2>4 DEF Silent, Named
    <3>2. pc'[c] = "unlinkStale"
      BY <2>4
    <3> QED
      BY <2>2, <3>1, <3>2, FactsKept DEF Keeps, Running, Phase
  <2> QED
    BY <1>1, <2>3, <2>4 DEF StopProbes
<1>2. CASE StopFindsNothing(c) \/ StopUnlinks(c)
  <2>1. Nobody
    BY <1>2 DEF StopFindsNothing, StopUnlinks, Phase
  <2>2. UNCHANGED proc /\ pidFile' = None /\ pc'[c] = "done"
    BY <1>2 DEF StopFindsNothing, StopUnlinks, servers
  <2> QED
    BY <2>1, <2>2 DEF Keeps, Running, Nobody
<1>3. CASE StopAccepted(c)
  <2>1. PICK s \in Command : Only(s, {"serving"})
    BY <1>3 DEF StopAccepted, Phase, Named
  <2>2. proc' = [proc EXCEPT ![s] = "stopping"]
    BY <1>3, <1>s, <2>1 DEF StopAccepted, Accepts
  <2>3. Only(s, {"stopping"})' /\ pc'[c] = "gone"
    BY <1>3, <2>1, <2>2 DEF StopAccepted, Only
  <2> QED
    BY <2>3 DEF Keeps, Running, Phase, Leaving
<1>4. CASE StopRefused(c)
  <2>1. Named
    BY <1>4 DEF StopRefused, Phase
  <2>2. UNCHANGED <<proc, pidFile>> /\ pc'[c] = "done"
    BY <1>4 DEF StopRefused, servers
  <2> QED
    BY <2>1, <2>2, FactsKept DEF Keeps, Running
<1>5. CASE StopFails(c)
  <2>1. PICK s \in Command : Only(s, {"serving"})
    BY <1>5 DEF StopFails, Phase, Named
  <2> QED
    BY <1>5, <1>s, <2>1 DEF StopFails
<1>6. CASE StopWaits(c)
  <2>1. Nobody \/ Leaving
    BY <1>6 DEF StopWaits, Phase
  <2>2. ASSUME NEW s \in Command, Only(s, {"stopping", "cleared"}) PROVE FALSE
    <3>1. Only(s, {"serving", "stopping", "cleared"})
      BY <2>2 DEF Only
    <3>2. Up(PortOf(c)) /\ listener[PortOf(c)] = s
      BY <1>p, <3>1, OnlyOneAnswers
    <3> QED
      BY <1>6, <2>2, <3>2 DEF StopWaits, Only
  <2>3. Nobody
    BY <2>1, <2>2 DEF Leaving, Only
  <2>4. UNCHANGED <<proc, pidFile>> /\ pc'[c] = "unlink"
    BY <1>6 DEF StopWaits, servers
  <2> QED
    BY <2>3, <2>4, FactsKept DEF Keeps, Running, Phase
<1> QED
  BY <1>1, <1>2, <1>3, <1>4, <1>5, <1>6 DEF Stop

LEMMA StatusKeeps ==
  ASSUME FileInv, prompt, ~disturbed, OnePort, NEW c \in Command, Running(c), Phase(c), Status(c)
  PROVE  Keeps(c)'
<1> USE DEF FileInv, BaseInv, TypeOK, At, Go, Report
<1>p. PortOf(c) \in Port
  BY DEF Args, PortOf
<1>u. UNCHANGED <<proc, pidFile>>
  BY DEF Status, StatusProbes, StatusReads, servers
<1>1. CASE StatusProbes(c)
  <2>1. Nobody \/ Named
    BY <1>1 DEF StatusProbes, Phase
  <2>2. CASE Up(PortOf(c)) /\ Go(c, "read")
    <3>1. Named
      BY <1>p, <2>1, <2>2, NobodyIsSilent DEF Nobody
    <3>2. pc'[c] = "read"
      BY <2>2
    <3> QED
      BY <1>u, <3>1, <3>2, FactsKept DEF Keeps, Running, Phase
  <2>3. CASE pc'[c] = "done"
    BY <1>u, <2>1, <2>3, FactsKept DEF Keeps, Running
  <2> QED
    BY <1>1, <2>2, <2>3 DEF StatusProbes
<1>2. CASE StatusReads(c)
  <2>1. Named /\ pc'[c] = "done"
    BY <1>2 DEF StatusReads, Phase
  <2> QED
    BY <1>u, <2>1, FactsKept DEF Keeps, Running
<1> QED
  BY <1>1, <1>2 DEF Status

\* A step of a server, while command c runs or has ended.
LEMMA ServerKeeps ==
  ASSUME FileInv, NEW c \in Command, Keeps(c), NEW s \in Command, Server(s)
  PROVE  Keeps(c)'
<1> USE DEF FileInv, BaseInv, TypeOK
<1>u. pc' = pc
  BY DEF Server, Boot, BootFails, ShutdownRemoves, ShutdownExits, cmds
<1>1. ~Nobody
  BY DEF Nobody, Server, Boot, BootFails, ShutdownRemoves, ShutdownExits
<1>2. ~Named
  BY DEF Named, Only, Server, Boot, BootFails, ShutdownRemoves, ShutdownExits
<1>3. CASE pc[c] \in {"write", "wait"}
  <2>1. Only(c, {"booting", "serving"})
    BY <1>3 DEF Keeps, Phase, Running
  <2>2. c = s /\ proc[s] = "booting"
    BY <2>1 DEF Only, Server, Boot, BootFails, ShutdownRemoves, ShutdownExits
  <2>3. PortOf(c) \in Port
    BY DEF Args, PortOf
  <2>4. ~Up(PortOf(c))
    BY <2>1, <2>2, <2>3, WhoAnswersIsTheOne
  <2>5. proc' = [proc EXCEPT ![s] = "serving"] /\ pidFile' = pidFile
    BY <2>2, <2>4 DEF Server, Boot, BootFails, ShutdownRemoves, ShutdownExits
  <2>6. Only(c, {"booting", "serving"})'
    BY <2>1, <2>2, <2>5 DEF Only
  <2> QED
    BY <1>u, <1>3, <2>5, <2>6 DEF Keeps, Phase, Running
<1>4. CASE pc[c] = "gone"
  <2>1. PICK r \in Command : Only(r, {"stopping"}) \/ (Only(r, {"cleared"}) /\ pidFile = None)
    BY <1>1, <1>4 DEF Keeps, Phase, Running, Leaving
  <2>2. r = s /\ (ShutdownRemoves(s) \/ ShutdownExits(s))
    BY <2>1 DEF Only, Server, Boot, BootFails, ShutdownRemoves, ShutdownExits
  <2>3. CASE ShutdownRemoves(s)
    <3>1. Only(s, {"cleared"})' /\ pidFile' = None
      BY <2>1, <2>2, <2>3 DEF Only, ShutdownRemoves
    <3> QED
      BY <1>u, <1>4, <3>1 DEF Keeps, Phase, Running, Leaving
  <2>4. CASE ShutdownExits(s)
    <3>1. Nobody'
      BY <2>1, <2>2, <2>4 DEF Only, ShutdownExits, Nobody
    <3> QED
      BY <1>u, <1>4, <3>1 DEF Keeps, Phase, Running
  <2> QED
    BY <2>2, <2>3, <2>4
<1>5. CASE pc[c] \notin {"write", "wait", "gone"}
  BY <1>1, <1>2, <1>5 DEF Keeps, Phase, Running, Places
<1> QED
  BY <1>3, <1>4, <1>5

-----------------------------------------------------------------------------
(* The invariant, and what follows from it.                                *)

LEMMA BeginKeeps ==
  ASSUME FileInv, prompt, ~disturbed', NEW c \in Command, Begin(c)
  PROVE  ~disturbed /\ (OnePort /\ OneRuns /\ Phases)'
<1> USE DEF FileInv, BaseInv, TypeOK
<1>1. PICK k \in Kinds, p \in Port, flag \in Host \cup {""}, env \in Host \cup {""}, t \in BOOLEAN :
        Invoked(c, k, p, flag, env, t)
  BY Invocation
<1>2. ~disturbed /\ k # "serve"
  BY <1>1 DEF Invoked
<1>3. \A d \in Command : ~Running(d) /\ (pc[d] = "done" => PortOf(d) = p)
  BY <1>1 DEF Invoked, PortOf
<1>4. /\ args' = [args EXCEPT ![c] = [kind |-> k, port |-> p,
                                      host |-> ServeHost(flag, env), token |-> t]]
      /\ pc' = [pc EXCEPT ![c] = "probe"]
      /\ UNCHANGED <<proc, pidFile>>
  BY <1>1, <1>2 DEF Invoked, Go, Begin
<1>5. \A d \in Command : pc'[d] # "idle" => PortOf(d)' = p
  BY <1>3, <1>4 DEF Running, PortOf
<1>6. \A d \in Command : Running(d)' => d = c
  BY <1>3, <1>4 DEF Running
<1>7. Nobody \/ Named
  BY <1>2, <1>3 DEF OneByOne, Phases
<1>8. (Nobody \/ Named)' /\ Running(c)'
  BY <1>4, <1>7, FactsKept DEF Running
<1>9. Phase(c)'
  BY <1>4, <1>8 DEF Phase
<1> QED
  BY <1>2, <1>5, <1>6, <1>8, <1>9 DEF OnePort, OneRuns, Phases

LEMMA NextOneByOne == FileInv /\ [Next]_vars => OneByOne'
<1>1. ASSUME FileInv, prompt', ~disturbed', Next PROVE (OnePort /\ OneRuns /\ Phases)'
  <2>1. PICK c \in Command :
          Begin(c) \/ Start(c) \/ Stop(c) \/ Status(c) \/ Server(c) \/ Crash(c)
    BY <1>1 DEF Next
  <2>2. prompt
    BY <1>1, <2>1
       DEF Begin, Start, StartFinds, StartFails, StartSpawns, StartWrites, StartSees,
           StartGivesUp, StartUnwrites, Stop, StopProbes, StopFindsNothing, StopAccepted,
           StopRefused, StopFails, StopWaits, StopUnlinks, Status, StatusProbes, StatusReads,
           Server, Boot, BootFails, ShutdownRemoves, ShutdownExits, Crash
  <2>3. CASE Begin(c)
    BY <1>1, <2>2, <2>3, BeginKeeps
  <2>4. CASE Start(c) \/ Stop(c) \/ Status(c)
    <3>1. /\ Running(c) /\ UNCHANGED <<args, disturbed>>
          /\ \A d \in Command \ {c} : pc'[d] = pc[d]
      BY <1>1, <2>4
         DEF FileInv, BaseInv, TypeOK, Running, At, Go, Report,
             Start, StartFinds, StartFails, StartSpawns, StartWrites, StartSees,
             StartGivesUp, StartUnwrites, Stop, StopProbes, StopFindsNothing, StopAccepted,
             StopRefused, StopFails, StopWaits, StopUnlinks, Status, StatusProbes, StatusReads
    <3>2. OnePort /\ OneRuns /\ Phases
      BY <1>1, <2>2, <3>1 DEF FileInv, OneByOne
    <3>3. Keeps(c)'
      BY <1>1, <2>2, <2>4, <3>1, <3>2, StartKeeps, StopKeeps, StatusKeeps DEF Phases
    <3>4. pc[c] # "idle" /\ \A d \in Command \ {c} : ~Running(d)'
      BY <3>1, <3>2 DEF OneRuns, Running
    <3>5. OnePort' /\ OneRuns'
      BY <3>1, <3>2, <3>4 DEF OnePort, OneRuns, Running, PortOf
    <3>6. Phases'
      BY <3>3, <3>4 DEF Phases, Keeps
    <3> QED
      BY <3>5, <3>6
  <2>5. CASE Server(c)
    <3>1. UNCHANGED <<args, pc, disturbed>>
      BY <2>5 DEF Server, Boot, BootFails, ShutdownRemoves, ShutdownExits, cmds
    <3>2. OnePort /\ OneRuns /\ Phases
      BY <1>1, <2>2, <3>1 DEF FileInv, OneByOne
    <3>3. OnePort' /\ OneRuns'
      BY <3>1, <3>2 DEF OnePort, OneRuns, Running, PortOf
    <3>4. CASE \E d \in Command : Running(d)
      <4>1. PICK d \in Command : Running(d)
        BY <3>4
      <4>2. Keeps(d)'
        BY <1>1, <2>5, <3>2, <4>1, ServerKeeps DEF Keeps, Phases
      <4>3. \A e \in Command : Running(e)' => e = d
        BY <3>1, <3>2, <4>1 DEF OneRuns, Running
      <4> QED
        BY <3>1, <3>3, <4>1, <4>2, <4>3 DEF Phases, Keeps, Running
    <3>5. CASE \A d \in Command : ~Running(d)
      <4>1. Keeps(c)'
        BY <1>1, <2>5, <3>2, <3>5, ServerKeeps DEF Keeps, Phases
      <4> QED
        BY <3>1, <3>3, <3>5, <4>1 DEF Phases, Keeps, Running
    <3> QED
      BY <3>4, <3>5
  <2>6. CASE Crash(c)
    BY <1>1, <2>6 DEF Crash
  <2> QED
    BY <2>1, <2>3, <2>4, <2>5, <2>6
<1>2. ASSUME OneByOne, UNCHANGED vars PROVE OneByOne'
  BY <1>2 DEF vars, cmds, servers, history, OneByOne, OnePort, OneRuns, Phases, Phase, Running,
              Nobody, Named, Leaving, Only, PortOf
<1> QED
  BY <1>1, <1>2 DEF FileInv, OneByOne

LEMMA FileInvHolds == Spec => []FileInv
<1>1. Init => ServersListen /\ OneByOne
  BY DEF Init, ServersListen, OneByOne, OnePort, OneRuns, Phases, Nobody, Running
<1>2. FileInv /\ [Next]_vars => FileInv'
  BY NextBaseInv, NextServersListen, NextOneByOne DEF FileInv
<1> QED
  BY <1>1, <1>2, InitBaseInv, PTL DEF Spec, FileInv

\* As long as commands come one after the other, for one port, and nothing is slow, the pid
\* file is there exactly while a server is, and names it, although it is removed by both the
\* stop and the process that stops (daemon.go:86-91, 107, 134, server.go:147).
THEOREM ThePidFileIsRight == Spec => []PidFileNamesTheServer
<1>1. FileInv => PidFileNamesTheServer
  <2> SUFFICES ASSUME FileInv, prompt, ~disturbed, Quiet, NEW p \in Port, NEW s \in Command
               PROVE  listener[p] = s <=> pidFile = s /\ args[s].port = p
    BY DEF PidFileNamesTheServer
  <2>1. Nobody \/ Named
    BY DEF FileInv, OneByOne, Phases, Quiet
  <2>2. CASE Nobody
    <3>1. ~Up(p) /\ None \notin Command
      BY <2>2, NobodyIsSilent, CommandAssumption DEF Nobody, None
    <3> QED
      BY <2>2, <3>1 DEF Nobody, Up
  <2>3. CASE Named
    <3>1. PICK r \in Command : Only(r, {"serving"}) /\ pidFile = r
      BY <2>3 DEF Named
    <3>2. listener[PortOf(r)] = r
      BY <3>1 DEF FileInv, ServersListen, Only
    <3>3. listener[p] = s => s = r /\ PortOf(s) = p
      BY <3>1, CommandAssumption
         DEF FileInv, BaseInv, ListenersFit, Only, Up, None
    <3> QED
      BY <3>1, <3>2, <3>3 DEF PortOf
  <2> QED
    BY <2>1, <2>2, <2>3
<1> QED
  BY <1>1, FileInvHolds, PTL

\* The same for the pid that a start or a status reports: it is the pid of the process that
\* answers on the command's port (daemon.go:89-98, 148-153).
THEOREM ThePidToldIsRight == Spec => TellsTheServer
<1>1. ASSUME FileInv, FileInv', [Next]_vars, NEW c \in Command, prompt, ~disturbed',
             out[c] = "none", out'[c] \in {"started", "running"}
      PROVE  told'[c] = listener[PortOf(c)]
  <2>1. PICK d \in Command :
          Begin(d) \/ Start(d) \/ Stop(d) \/ Status(d) \/ Server(d) \/ Crash(d)
    BY <1>1 DEF Next, vars, cmds
  <2>2. d = c /\ (StartSees(c) \/ StatusReads(c))
    BY <1>1, <2>1
       DEF FileInv, BaseInv, TypeOK, Go, Report, Begin, Start, StartFinds, StartFails,
           StartSpawns, StartWrites, StartSees, StartGivesUp, StartUnwrites, Stop, StopProbes,
           StopFindsNothing, StopAccepted, StopRefused, StopFails, StopWaits, StopUnlinks,
           Status, StatusProbes, StatusReads, Server, Boot, BootFails, ShutdownRemoves,
           ShutdownExits, Crash, cmds
  <2>3. Running(c) /\ OnePort /\ Phase(c) /\ PortOf(c) \in Port
    BY <1>1, <2>2
       DEF FileInv, BaseInv, TypeOK, OneByOne, Phases, Running, At, StartSees, StatusReads,
           Args, PortOf
  <2>4. PICK s \in Command : Only(s, {"booting", "serving"}) /\ pidFile = s /\ told'[c] = s
                             /\ (StatusReads(c) => proc[s] = "serving")
    <3>1. CASE StartSees(c)
      BY <1>1, <2>3, <3>1 DEF FileInv, BaseInv, TypeOK, StartSees, StatusReads, At, Phase, Report
    <3>2. CASE StatusReads(c)
      BY <1>1, <2>3, <3>2
         DEF FileInv, BaseInv, TypeOK, StatusReads, At, Phase, Report, Named, Only, PidRead
    <3> QED
      BY <2>2, <3>1, <3>2
  <2>5. CASE StartSees(c)
    BY <1>1, <2>3, <2>4, <2>5, WhoAnswersIsTheOne DEF StartSees
  <2>6. CASE StatusReads(c)
    <3>1. Only(s, {"serving", "stopping", "cleared"})
      BY <2>4, <2>6 DEF Only
    <3> QED
      BY <1>1, <2>3, <2>4, <3>1, OnlyOneAnswers DEF Running
  <2> QED
    BY <2>2, <2>5, <2>6
<1>2. FileInv /\ FileInv' /\ [Next]_vars =>
        [\A c \in Command :
          /\ prompt /\ ~disturbed' /\ out[c] = "none"
          /\ out'[c] \in {"started", "running"}
          => told'[c] = listener[PortOf(c)]]_vars
  BY <1>1
<1> QED
  BY <1>2, FileInvHolds, PTL DEF Spec, TellsTheServer
=============================================================================
