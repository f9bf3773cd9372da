------------------------------- MODULE Daemon -------------------------------
(***************************************************************************)
(* The command line that starts, stops and asks after servers (main.go,    *)
(* daemon.go) and the life of a server process (server.go).                *)
(*                                                                         *)
(* Commands are processes of their own and may overlap.  All of them, for  *)
(* whatever port, share one pid file.  A server process is named after the *)
(* command that made it, so a pid is a command's name.  A step is one      *)
(* system call that others can see: a probe, a spawn, a write or removal   *)
(* of the pid file, a POST.  Calls on the pid file succeed; "all" stands   *)
(* for a host off loopback whose port loopback reaches too.                *)
(***************************************************************************)
EXTENDS Integers

CONSTANTS
    Command,      \* invocations of the program, numbered as they begin
    Port

ASSUME CommandAssumption == Command \subseteq Nat \ {0} /\ Port # {}

None == 0         \* no process

VARIABLES
    args,         \* what each command was invoked with
    pc,           \* where it is
    out,          \* what it reported
    told,         \* the pid in its report
    proc,         \* the server process it made
    listener,     \* the process that listens on each port
    pidFile,      \* the process /tmp/bkn-drive.pid names
    prompt,       \* nothing in this behaviour outlasts the code's timeouts
    silence,      \* history: the stops whose port was silent while they ran
    disturbed     \* history: commands overlapped, used several ports or ran
                  \* in the foreground, or a server died by itself

cmds    == <<args, pc, out, told>>
servers == <<proc, listener>>
history == <<silence, disturbed>>
vars    == <<cmds, servers, pidFile, prompt, history>>

Kinds  == {"start", "serve", "stop", "status"}
Host   == {"loopback", "all"}
Places == {"idle", "probe", "write", "wait", "unwrite", "post", "gone",
           "unlink", "unlinkStale", "read", "done"}
Reports == {"none", "already_running", "started", "failed", "unhealthy",
            "not_running", "stopped", "refused", "running"}
Args   == [kind : Kinds, port : Port, host : Host, token : BOOLEAN]

Idle(p) == [kind |-> "status", port |-> p, host |-> "loopback", token |-> FALSE]

Init ==
    /\ args \in [Command -> {Idle(CHOOSE p \in Port : TRUE)}]
    /\ pc = [c \in Command |-> "idle"] /\ out = [c \in Command |-> "none"]
    /\ told = [c \in Command |-> None]
    /\ proc = [c \in Command |-> "none"] /\ listener = [p \in Port |-> None]
    /\ pidFile = None
    /\ prompt \in BOOLEAN
    /\ silence = {} /\ disturbed = FALSE

-----------------------------------------------------------------------------
Up(p)      == listener[p] # None
Alive(s)   == proc[s] \in {"booting", "serving", "stopping", "cleared"}
Running(c) == pc[c] \notin {"idle", "done"}

\* probeHealth: a port answers if somebody listens; unless everything is
\* prompt, it may also be given up after half a second.
Silent(p)  == ~prompt \/ ~Up(p)

\* Whether process s answers to a shutdown: MUTANT of MayShutdown, the test for
\* an empty token is missing.
MayShutdownUnset(s, c) ==
    args[s].host = "loopback" \/ args[s].token = args[c].token

\* shutdownAuthorized, for command c's POST to process s.
MayShutdown(s, c) ==
    args[s].host = "loopback" \/ (args[s].token /\ args[c].token)

\* The ports once process s is gone.
Freed(s) == [p \in Port |-> IF listener[p] = s THEN None ELSE listener[p]]

Go(c, place) == pc' = [pc EXCEPT ![c] = place]

\* emit or die: command c ends with report r about process s.
Report(c, r, s) ==
    /\ pc' = [pc EXCEPT ![c] = "done"]
    /\ out' = [out EXCEPT ![c] = r]
    /\ told' = [told EXCEPT ![c] = s]

\* serveFlags: --host, else $HOST, else loopback.
ServeHost(flag, env) ==
    IF flag # "" THEN flag ELSE IF env # "" THEN env ELSE "loopback"

-----------------------------------------------------------------------------
\* main and handleDaemon, up to the handler of the command.  `serve' becomes a
\* server process itself.  A token that nobody would ask for is left out.
Begin(c) ==
    /\ pc[c] = "idle" /\ \A d \in Command : d < c => pc[d] # "idle"
    /\ \E k \in Kinds, p \in Port, flag, env \in Host \cup {""}, t \in BOOLEAN :
        /\ k \in {"stop", "status"} => flag = "" /\ env = ""
        /\ t => k = "stop" \/ (k # "status" /\ ServeHost(flag, env) = "all")
        /\ args' = [args EXCEPT ![c] = [kind |-> k, port |-> p,
                                        host |-> ServeHost(flag, env), token |-> t]]
        /\ disturbed' =
            (disturbed \/ k = "serve" \/
             \E d \in Command : Running(d) \/ (pc[d] = "done" /\ args[d].port # p))
        /\ IF k = "serve"
           THEN Go(c, "done") /\ proc' = [proc EXCEPT ![c] = "booting"]
           ELSE Go(c, "probe") /\ UNCHANGED proc
    /\ UNCHANGED <<out, told, listener, pidFile, prompt>>

At(c, kind, place) == args[c].kind = kind /\ pc[c] = place
PortOf(c) == args[c].port

-----------------------------------------------------------------------------
\* daemonStart: the port already answers.
StartFinds(c) ==
    /\ At(c, "start", "probe") /\ Up(PortOf(c))
    /\ Report(c, "already_running", None)
    /\ UNCHANGED <<args, servers, pidFile, prompt, disturbed>>

\* It is silent and the log cannot be opened or the process not be made.
StartFails(c) ==
    /\ At(c, "start", "probe") /\ Silent(PortOf(c))
    /\ Report(c, "failed", None)
    /\ UNCHANGED <<args, servers, pidFile, prompt, disturbed>>

\* It is silent: cmd.Start.
StartSpawns(c) ==
    /\ At(c, "start", "probe") /\ Silent(PortOf(c))
    /\ proc' = [proc EXCEPT ![c] = "booting"]
    /\ Go(c, "write")
    /\ UNCHANGED <<args, out, told, listener, pidFile, prompt, disturbed>>

\* MUTANT of StartWrites: the command's work ends with the pid file.
StartWritesOnly(c) ==
    /\ At(c, "start", "write")
    /\ pidFile' = c
    /\ Report(c, "started", c)
    /\ UNCHANGED <<args, servers, prompt, disturbed>>

StartWrites(c) ==
    /\ At(c, "start", "write")
    /\ pidFile' = c
    /\ Go(c, "wait")
    /\ UNCHANGED <<args, out, told, servers, prompt, disturbed>>

\* waitFor(port, true) sees the port answer, whoever answers.
StartSees(c) ==
    /\ At(c, "start", "wait") /\ Up(PortOf(c))
    /\ Report(c, "started", c)
    /\ UNCHANGED <<args, servers, pidFile, prompt, disturbed>>

\* MUTANT of StartGivesUp: it waits for its process as long as that takes.
StartGivesUpOnSlow(c) ==
    /\ At(c, "start", "wait") /\ Silent(PortOf(c)) /\ Alive(c) /\ ~prompt
    /\ proc' = [proc EXCEPT ![c] = "dead"] /\ listener' = Freed(c)
    /\ Go(c, "unwrite")
    /\ UNCHANGED <<args, out, told, pidFile, prompt, disturbed>>

\* MUTANT of StartGivesUp: the process is not killed.
StartGivesUpLeaving(c) ==
    /\ At(c, "start", "wait") /\ Silent(PortOf(c))
    /\ prompt => ~Alive(c)
    /\ Go(c, "unwrite")
    /\ UNCHANGED <<args, out, told, servers, pidFile, prompt, disturbed>>

\* Five seconds without an answer: Kill.  A prompt process is up by then, or dead.
StartGivesUp(c) ==
    /\ At(c, "start", "wait") /\ Silent(PortOf(c))
    /\ prompt => ~Alive(c)
    /\ proc' = [proc EXCEPT ![c] = "dead"] /\ listener' = Freed(c)
    /\ Go(c, "unwrite")
    /\ UNCHANGED <<args, out, told, pidFile, prompt, disturbed>>

StartUnwrites(c) ==
    /\ At(c, "start", "unwrite")
    /\ pidFile' = None
    /\ Report(c, "unhealthy", c)
    /\ UNCHANGED <<args, servers, prompt, disturbed>>

Start(c) ==
    \/ StartFinds(c) \/ StartFails(c) \/ StartSpawns(c) \/ StartWrites(c)
    \/ StartSees(c) \/ StartGivesUp(c) \/ StartUnwrites(c)

-----------------------------------------------------------------------------
\* daemonStop: the first probe.
StopProbes(c) ==
    /\ At(c, "stop", "probe")
    /\ \/ Up(PortOf(c)) /\ Go(c, "post")
       \/ Silent(PortOf(c)) /\ Go(c, "unlinkStale")
    /\ UNCHANGED <<args, out, told, servers, pidFile, prompt, disturbed>>

\* Nothing is running.
StopFindsNothing(c) ==
    /\ At(c, "stop", "unlinkStale")
    /\ pidFile' = None
    /\ Report(c, "not_running", None)
    /\ UNCHANGED <<args, servers, prompt, disturbed>>

\* handleShutdown accepts the POST: it answers, and stops a moment later.
Accepts(s, c) ==
    /\ MayShutdown(s, c)
    /\ proc' = [proc EXCEPT ![s] = IF @ = "serving" THEN "stopping" ELSE @]

StopAccepted(c) ==
    /\ At(c, "stop", "post") /\ Up(PortOf(c))
    /\ Accepts(listener[PortOf(c)], c)
    /\ Go(c, "gone")
    /\ UNCHANGED <<args, out, told, listener, pidFile, prompt, disturbed>>

\* MUTANT of StopRefused: the pid file is removed whatever the answer.
StopRefusedUnlinking(c) ==
    /\ At(c, "stop", "post") /\ Up(PortOf(c))
    /\ ~MayShutdown(listener[PortOf(c)], c)
    /\ pidFile' = None
    /\ Report(c, "refused", None)
    /\ UNCHANGED <<args, servers, prompt, disturbed>>

\* 403, and the process goes on.
StopRefused(c) ==
    /\ At(c, "stop", "post") /\ Up(PortOf(c))
    /\ ~MayShutdown(listener[PortOf(c)], c)
    /\ Report(c, "refused", None)
    /\ UNCHANGED <<args, servers, pidFile, prompt, disturbed>>

\* The POST fails: nobody listens any more, or a process on its way out or too
\* slow gives no answer, whether or not it took the request.
StopFails(c) ==
    /\ At(c, "stop", "post")
    /\ \/ ~Up(PortOf(c)) /\ UNCHANGED proc
       \/ /\ Up(PortOf(c))
          /\ prompt => proc[listener[PortOf(c)]] # "serving"
          /\ Accepts(listener[PortOf(c)], c) \/ UNCHANGED proc
    /\ Report(c, "failed", None)
    /\ UNCHANGED <<args, listener, pidFile, prompt, disturbed>>

\* MUTANT of StopWaits: waitFor is left out.
StopWaitsNot(c) ==
    /\ At(c, "stop", "gone")
    /\ Go(c, "unlink")
    /\ UNCHANGED <<args, out, told, servers, pidFile, prompt, disturbed>>

\* waitFor(port, false), whose result is ignored: the port is silent, or five
\* seconds are over, in which a prompt process has gone.
StopWaits(c) ==
    /\ At(c, "stop", "gone")
    /\ prompt /\ Up(PortOf(c)) => proc[listener[PortOf(c)]] = "serving"
    /\ Go(c, "unlink")
    /\ UNCHANGED <<args, out, told, servers, pidFile, prompt, disturbed>>

StopUnlinks(c) ==
    /\ At(c, "stop", "unlink")
    /\ pidFile' = None
    /\ Report(c, "stopped", None)
    /\ UNCHANGED <<args, servers, prompt, disturbed>>

Stop(c) ==
    \/ StopProbes(c) \/ StopFindsNothing(c) \/ StopAccepted(c)
    \/ StopRefused(c) \/ StopFails(c) \/ StopWaits(c) \/ StopUnlinks(c)

-----------------------------------------------------------------------------
\* daemonStatus: the probe, then the pid file, which names no port.
StatusProbes(c) ==
    /\ At(c, "status", "probe")
    /\ \/ Up(PortOf(c)) /\ Go(c, "read") /\ UNCHANGED <<out, told>>
       \/ Silent(PortOf(c)) /\ Report(c, "not_running", None)
    /\ UNCHANGED <<args, servers, pidFile, prompt, disturbed>>

\* MUTANT of PidRead: pid is not initialised.
PidReadRaw == IF pidFile = None THEN -1 ELSE pidFile

\* What Sscanf leaves in pid, 0 if there is no file.
PidRead == pidFile

StatusReads(c) ==
    /\ At(c, "status", "read")
    /\ Report(c, "running", PidRead)
    /\ UNCHANGED <<args, servers, pidFile, prompt, disturbed>>

Status(c) == StatusProbes(c) \/ StatusReads(c)

-----------------------------------------------------------------------------
\* startServer: the port is free.
Boot(s) ==
    /\ proc[s] = "booting" /\ ~Up(PortOf(s))
    /\ proc' = [proc EXCEPT ![s] = "serving"]
    /\ listener' = [listener EXCEPT ![PortOf(s)] = s]
    /\ UNCHANGED <<cmds, pidFile, prompt, disturbed>>

\* port_unavailable.
BootFails(s) ==
    /\ proc[s] = "booting" /\ Up(PortOf(s))
    /\ proc' = [proc EXCEPT ![s] = "dead"]
    /\ UNCHANGED <<cmds, listener, pidFile, prompt, disturbed>>

\* MUTANT of ShutdownRemoves: no file, no exit.
ShutdownRemovesOnce(s) ==
    /\ proc[s] = "stopping" /\ pidFile # None
    /\ pidFile' = None
    /\ proc' = [proc EXCEPT ![s] = "cleared"]
    /\ UNCHANGED <<cmds, listener, prompt, disturbed>>

\* handleShutdown's goroutine: os.Remove(pidFile), whatever it names.
ShutdownRemoves(s) ==
    /\ proc[s] = "stopping"
    /\ pidFile' = None
    /\ proc' = [proc EXCEPT ![s] = "cleared"]
    /\ UNCHANGED <<cmds, listener, prompt, disturbed>>

\* os.Exit.
ShutdownExits(s) ==
    /\ proc[s] = "cleared"
    /\ proc' = [proc EXCEPT ![s] = "dead"] /\ listener' = Freed(s)
    /\ UNCHANGED <<cmds, pidFile, prompt, disturbed>>

\* The process dies by itself.
Crash(s) ==
    /\ Alive(s)
    /\ proc' = [proc EXCEPT ![s] = "dead"] /\ listener' = Freed(s)
    /\ disturbed' = TRUE
    /\ UNCHANGED <<cmds, pidFile, prompt>>

Server(s) == Boot(s) \/ BootFails(s) \/ ShutdownRemoves(s) \/ ShutdownExits(s)

\* History: whether a stop could have found its port silent so far.
Observe ==
    silence' = silence \cup
        {c \in Command : args[c].kind = "stop" /\ Running(c)' /\ ~Up(PortOf(c))'}

Next ==
    /\ \E c \in Command :
        Begin(c) \/ Start(c) \/ Stop(c) \/ Status(c) \/ Server(c) \/ Crash(c)
    /\ Observe

Spec == Init /\ [][Next]_vars

\* Commands and servers go on: each wait of theirs is bounded by the code.  They
\* all take finitely many steps, so one fairness condition is enough.
FairSpec ==
    Spec /\ WF_vars((\E c \in Command : Start(c) \/ Stop(c) \/ Status(c) \/ Server(c))
                    /\ Observe)

-----------------------------------------------------------------------------
TypeOK ==
    /\ args \in [Command -> Args]
    /\ pc \in [Command -> Places]
    /\ out \in [Command -> Reports]
    /\ told \in [Command -> Command \cup {None}]
    /\ proc \in [Command -> {"none", "booting", "serving", "stopping", "cleared", "dead"}]
    /\ listener \in [Port -> Command \cup {None}]
    /\ pidFile \in Command \cup {None}
    /\ prompt \in BOOLEAN
    /\ silence \subseteq Command
    /\ disturbed \in BOOLEAN

\* Whatever else starts, stops or dies meanwhile, "running: false" from a stop
\* was so at some moment while it ran, unless something outlasted a timeout: the
\* result of its waitFor is ignored (daemon.go:133-135).
StoppedWasSilent ==
    \A c \in Command :
        prompt /\ args[c].kind = "stop" /\ out[c] \in {"not_running", "stopped"}
            => c \in silence

Quiet == \A c \in Command : ~Running(c) /\ proc[c] \in {"none", "serving", "dead"}

\* As long as commands come one after the other, for one port, the pid file is
\* there exactly while a server is, and names it (daemon.go:86-91, 107, 134,
\* server.go:147): no late removal or write survives into the next command.
PidFileNamesTheServer ==
    prompt /\ ~disturbed /\ Quiet =>
        \A p \in Port, s \in Command : listener[p] = s <=>
            pidFile = s /\ args[s].port = p

\* The same for the pid that start and status report.
TellsTheServer ==
    [][\A c \in Command :
        /\ prompt /\ ~disturbed' /\ out[c] = "none"
        /\ out'[c] \in {"started", "running"}
        => told'[c] = listener[PortOf(c)]]_vars

\* A start that gave up (daemon.go:89-96) leaves nothing behind: neither its process,
\* which might else boot late and take the port from a later start, nor the pid file
\* naming it, whatever other commands and servers do meanwhile.
GivenUpIsGone ==
    \A c \in Command : out[c] = "unhealthy" =>
        /\ proc[c] = "dead" /\ pidFile # c
        /\ \A p \in Port : listener[p] # c

\* "403, and the process MUST NOT stop" (server.go:133): a server off loopback is
\* on its way out only if it has a token, and a stop that knows it asked.
OnlyTheTokenStops ==
    \A s \in Command :
        proc[s] \in {"stopping", "cleared"} /\ args[s].host = "all" =>
            /\ args[s].token
            /\ \E c \in Command : /\ args[c].kind = "stop" /\ args[c].token
                                  /\ PortOf(c) = PortOf(s)
                                  /\ pc[c] \in {"gone", "unlink", "done"}

\* "answers before exiting" (server.go:121): what was told to stop is gone some
\* time, whoever else removed the pid file.
AcceptedStopsHappen ==
    []<>(\A s \in Command : proc[s] \notin {"stopping", "cleared"})

\* Every command ends, although its server never boots, never stops, or loses
\* its port to another (daemon.go:37-45, 89-95, 133).
EveryCommandEnds == []<>(\A c \in Command : ~Running(c))
=============================================================================
