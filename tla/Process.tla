------------------------------ MODULE Process -------------------------------
(***************************************************************************)
(* One life of the process (cmd/logai/main.go, run): what is opened in     *)
(* which order, where a failed start turns back, what a shutdown stops and *)
(* waits for, and the deferred calls that close the rest.  The poller runs *)
(* beside it; the worker and the HTTP server are on, off, or told to stop  *)
(* but still busy ("late"); their work is module Logai.                    *)
(***************************************************************************)
EXTENDS Poller, Sequences

VARIABLES
    step,       \* the statement of run that comes next
    deferred,   \* the resources that the deferred calls will close, last first
    worker,     \* asynqServer
    http        \* httpServer

processVars == <<step, deferred, worker, http>>
vars == <<pollerVars, processVars>>

Steps == {"config", "opendb", "migrate", "redis", "startworker", "newpoller", "startpoller",
          "serve", "wait", "stoppoller", "waitpoll", "stopworker", "stophttp", "abort",
          "return", "exited"}

Resources == {"db", "asynqClient", "inspector"}

TypeOK ==
    /\ PollerTypeOK
    /\ step \in Steps
    /\ deferred \in Seq(Resources)
    /\ worker \in {"off", "on", "late"}
    /\ http \in {"off", "on", "failed", "late"}

Init ==
    /\ PollerInit
    /\ step = "config" /\ deferred = <<>> /\ worker = "off" /\ http = "off"

At(s, next) == step = s /\ step' = next

Defer(resources) == deferred' = resources \o deferred

(* A configuration error exits at once: nothing is open yet. *)
LoadConfig ==
    /\ At("config", "opendb") \/ At("config", "exited")
    /\ UNCHANGED <<deferred, worker, http, pollerVars>>

(* The root context, which a signal may have cancelled, limits the ping. *)
OpenDB ==
    /\ \/ ~cancelled /\ At("opendb", "migrate") /\ Defer(<<"db">>)
       \/ At("opendb", "return") /\ UNCHANGED deferred
    /\ UNCHANGED <<worker, http, pollerVars>>

(* With -migrate-only run returns here, as it does when Migrate fails.     *)
Migrate ==
    /\ \/ ~cancelled /\ At("migrate", "redis")
       \/ At("migrate", "return")
    /\ UNCHANGED <<deferred, worker, http, pollerVars>>

ConnectRedis ==
    /\ \/ At("redis", "startworker") /\ Defer(<<"inspector", "asynqClient">>)
       \/ At("redis", "return") /\ UNCHANGED deferred
    /\ UNCHANGED <<worker, http, pollerVars>>

StartWorker ==
    /\ \/ At("startworker", "newpoller") /\ worker' = "on"
       \/ At("startworker", "return") /\ UNCHANGED worker
    /\ UNCHANGED <<deferred, http, pollerVars>>

NewPoller ==
    /\ At("newpoller", "startpoller") \/ At("newpoller", "abort")
    /\ UNCHANGED <<deferred, worker, http, pollerVars>>

StartPoller ==
    /\ \/ At("startpoller", "serve") /\ StartCron
       \/ At("startpoller", "abort") /\ UNCHANGED <<cron, since, nextPoll, poll>>
    /\ UNCHANGED <<deferred, worker, http, worldVars, handled, failures, token, cancelled>>

(* asynq's Shutdown waits eight seconds for the running handlers.  What it *)
(* gives back then (Logai!Abandon) goes on in its goroutine.               *)
StopServer == worker' \in {"off", "late"}

(* Without a poller the worker, which is running already, is stopped. *)
Abort ==
    /\ At("abort", "return")
    /\ StopServer
    /\ UNCHANGED <<deferred, http, pollerVars>>

Serve ==
    /\ At("serve", "wait")
    /\ http' = "on"
    /\ UNCHANGED <<deferred, worker, pollerVars>>

-----------------------------------------------------------------------------

Signal ==
    /\ ~cancelled /\ step # "exited"
    /\ cancelled' = TRUE
    /\ UNCHANGED <<processVars, worldVars, handled, failures, cron, since, nextPoll, token, poll>>

ServerFails ==
    /\ http = "on" /\ step = "wait"
    /\ http' = "failed"
    /\ UNCHANGED <<step, deferred, worker, pollerVars>>

(* Mutant: only the signal is waited for. *)
Wait_SignalOnly ==
    /\ At("wait", "stoppoller") /\ cancelled
    /\ UNCHANGED <<deferred, worker, http, pollerVars>>

Wait ==
    /\ At("wait", "stoppoller")
    /\ cancelled \/ http = "failed"
    /\ UNCHANGED <<deferred, worker, http, pollerVars>>

StopPoller ==
    /\ At("stoppoller", "waitpoll")
    /\ cron' = "stopped"
    /\ UNCHANGED <<deferred, worker, http, worldVars, handled, failures, since, nextPoll, token, poll, cancelled>>

(* Mutant: the context that cron.Stop returns is dropped. *)
PollerStopped_NoWait ==
    /\ At("waitpoll", "stopworker")
    /\ UNCHANGED <<deferred, worker, http, pollerVars>>

(* Cron waits for the jobs that it has started, not for the first poll,    *)
(* which Start runs beside it.                                             *)
PollerStopped ==
    /\ At("waitpoll", "stopworker")
    /\ ~JobRunning
    /\ UNCHANGED <<deferred, worker, http, pollerVars>>

StopWorker ==
    /\ At("stopworker", "stophttp")
    /\ StopServer
    /\ UNCHANGED <<deferred, http, pollerVars>>

(* Shutdown waits for the open requests, but for ten seconds only.         *)
StopHTTP ==
    /\ At("stophttp", "return")
    /\ http' \in {"off", "late"}
    /\ UNCHANGED <<deferred, worker, pollerVars>>

RunDeferred ==
    /\ step = "return" /\ deferred # <<>>
    /\ deferred' = Tail(deferred)
    /\ UNCHANGED <<step, worker, http, pollerVars>>

(* The process exits, and with it every goroutine. *)
Exit ==
    /\ At("return", "exited") /\ deferred = <<>>
    /\ poll' = [p \in Pollers |-> NoPoll]
    /\ UNCHANGED <<deferred, worker, http, worldVars, handled, failures, cron, since, nextPoll, token, cancelled>>

Main ==
    \/ LoadConfig \/ OpenDB \/ Migrate \/ ConnectRedis \/ StartWorker \/ NewPoller
    \/ StartPoller \/ Abort \/ Serve \/ Wait \/ StopPoller \/ PollerStopped
    \/ StopWorker \/ StopHTTP \/ RunDeferred \/ Exit

Next ==
    \/ Main \/ Signal \/ ServerFails
    \/ PollerNext /\ step # "exited" /\ UNCHANGED processVars
    \/ step = "exited" /\ UNCHANGED vars

Spec == Init /\ [][Next]_vars

(* The main goroutine runs on, and so does a poll: its requests end with   *)
(* its context at the latest.  Nobody has to send a signal.                *)
Fairness ==
    /\ WF_vars(Main)
    /\ \A p \in Pollers : WF_vars(PollStep(p) /\ step # "exited" /\ UNCHANGED processVars)

FairSpec == Spec /\ Fairness

=============================================================================
