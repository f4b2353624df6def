------------------------------- MODULE McpServer -------------------------------
(***************************************************************************)
(* The MCP server (rtgui/mcp): an HTTP server on a thread of its own whose *)
(* requests have their work done by the GTK thread, one task at a time,    *)
(* and wait for it at most ten seconds.  The GTK thread itself starts and  *)
(* stops the server, and waits for it while it does.                       *)
(*                                                                         *)
(* A request is a tool call, whose one task is the tool, or auto_edit,     *)
(* which gets a thumbnail, edits it on its own thread, and has the result  *)
(* saved and the thumbnail released.  Ten seconds may have passed at any   *)
(* time.  Abstracted: what the tools do, JSON, ports, the volume watcher.  *)
(***************************************************************************)
EXTENDS Naturals

CONSTANTS
    Requests        \* the requests of a run, each of which comes once

VARIABLES
    gtk,            \* what the GTK thread does
    running,        \* running_
    thread,         \* thread_: how far serverThread is
    request,        \* of each request: [pc, stage, apply, got]
    idles,          \* idle callbacks of dispatchToGtk, by request and stage
    tasks,          \* slots whose task has not been run or taken back
    done,           \* slots that are done
    held,           \* requests with a reference to a thumbnail
    acted,          \* requests whose tool has run, or whose edit was saved
    reply           \* of each request: what the client was told

vars == <<gtk, running, thread, request, idles, tasks, done, held, acted, reply>>

slots == <<idles, tasks, done>>
effects == <<held, acted>>

Stages == {"tool", "get", "apply", "release"}

Slots == Requests \X Stages

New == [pc |-> "new", stage |-> "tool", apply |-> FALSE, got |-> FALSE]

Free == <<"free">>
Starting == <<"start">>
Joining == <<"join">>
Crashed == <<"crashed">>

TypeOK ==
    /\ gtk \in {Free, Starting, Joining, Crashed}
               \cup {<<"task", s>> : s \in Slots}
    /\ running \in BOOLEAN
    /\ thread \in {"none", "bind", "bound", "listen", "drain", "ended"}
    /\ request \in [Requests -> [pc : {"new", "wait", "edit", "answered"},
                                 stage : Stages, apply : BOOLEAN,
                                 got : BOOLEAN]]
    /\ idles \subseteq Slots /\ tasks \subseteq Slots /\ done \subseteq Slots
    /\ held \subseteq Requests /\ acted \subseteq Requests
    /\ reply \in [Requests -> {"none", "ok", "failed", "timeout", "applied"}]

Init ==
    /\ gtk = Free
    /\ running = FALSE
    /\ thread = "none"
    /\ request = [r \in Requests |-> New]
    /\ idles = {} /\ tasks = {} /\ done = {}
    /\ held = {} /\ acted = {}
    /\ reply = [r \in Requests |-> "none"]

InFlight(r) == request[r].pc \in {"wait", "edit"}

-----------------------------------------------------------------------------
(* Starting and stopping. *)

\* A new thread in the place of one that was not joined ends the program.
Start ==
    /\ gtk = Free /\ ~running
    /\ IF thread = "none" THEN thread' = "bind" /\ gtk' = Starting
       ELSE gtk' = Crashed /\ UNCHANGED thread
    /\ UNCHANGED <<running, request, slots, effects, reply>>

\* start() waits until the server runs, or for five seconds.
StartReturns ==
    /\ gtk = Starting
    /\ gtk' = Free
    /\ UNCHANGED <<running, thread, request, slots, effects, reply>>

Bind ==
    /\ thread = "bind"
    /\ \/ thread' = "bound" /\ running' = TRUE
       \/ thread' = "ended" /\ UNCHANGED running
    /\ UNCHANGED <<gtk, request, slots, effects, reply>>

\* listen_after_bind: from here on the server can be stopped.
Listen ==
    /\ thread = "bound"
    /\ thread' = "listen"
    /\ UNCHANGED <<gtk, running, request, slots, effects, reply>>

\* The server's stop() has an effect only when the server listens.
Stop ==
    /\ gtk = Free /\ running
    /\ running' = FALSE
    /\ thread' = IF thread = "listen" THEN "drain" ELSE thread
    /\ gtk' = Joining
    /\ UNCHANGED <<request, slots, effects, reply>>

\* The pool of the HTTP server is joined, and serverThread returns.
Drained ==
    /\ thread = "drain"
    /\ \A r \in Requests : ~InFlight(r)
    /\ thread' = "ended" /\ running' = FALSE
    /\ UNCHANGED <<gtk, request, slots, effects, reply>>

Joined ==
    /\ gtk = Joining /\ thread = "ended"
    /\ thread' = "none"
    /\ gtk' = Free
    /\ UNCHANGED <<running, request, slots, effects, reply>>

-----------------------------------------------------------------------------
(* dispatchToGtk. *)

\* A request posts a task and waits; left is what the slots keep besides.
Dispatch(r, rec, left) ==
    /\ request' = [request EXCEPT ![r] = [rec EXCEPT !.pc = "wait"]]
    /\ idles' = idles \cup {<<r, rec.stage>>}
    /\ tasks' = left \cup {<<r, rec.stage>>}
    /\ UNCHANGED done

\* The GTK thread takes the slot's lock; a task that was taken back is not
\* run.
RunIdle ==
    /\ gtk = Free
    /\ \E s \in idles :
        /\ idles' = idles \ {s}
        /\ IF s \in tasks THEN gtk' = <<"task", s>> /\ UNCHANGED done
           ELSE done' = done \cup {s} /\ UNCHANGED gtk
    /\ UNCHANGED <<running, thread, request, tasks, effects, reply>>

\* The task has run; get may not find a thumbnail.
TaskEnds(s) ==
    /\ gtk = <<"task", s>>
    /\ gtk' = Free
    /\ tasks' = tasks \ {s} /\ done' = done \cup {s}
    /\ LET r == s[1] IN
        CASE s[2] = "get" -> \E found \in BOOLEAN :
                /\ held' = IF found THEN held \cup {r} ELSE held
                /\ request' = [request EXCEPT ![r].got = found]
                /\ UNCHANGED acted
          [] s[2] \in {"tool", "apply"} ->
                acted' = acted \cup {r} /\ UNCHANGED <<held, request>>
          [] s[2] = "release" ->
                held' = held \ {r} /\ UNCHANGED <<acted, request>>
    /\ UNCHANGED <<running, thread, idles, reply>>

Answer(r, what, left) ==
    /\ reply' = [reply EXCEPT ![r] = what]
    /\ request' = [request EXCEPT ![r].pc = "answered"]
    /\ tasks' = left
    /\ UNCHANGED <<idles, done>>

\* What follows a dispatch; runAutoEditTool does not look at its result.
Continue(r, result, left) ==
    LET me == request[r] IN
    \/ me.stage = "tool" /\ Answer(r, result, left)
    \/ me.stage = "get" /\ ~me.got /\ Answer(r, "failed", left)
    \/ /\ me.stage = "get" /\ me.got
       /\ request' = [request EXCEPT ![r].pc = "edit"]
       /\ tasks' = left
       /\ UNCHANGED <<idles, done, reply>>
    \/ /\ me.stage = "apply"
       /\ Dispatch(r, [me EXCEPT !.stage = "release"], left)
       /\ UNCHANGED reply
    \/ /\ me.stage = "release"
       /\ Answer(r, IF me.apply THEN "applied" ELSE "ok", left)

Slot(r) == <<r, request[r].stage>>

Return(r) ==
    /\ request[r].pc = "wait" /\ Slot(r) \in done
    /\ Continue(r, "ok", tasks)
    /\ UNCHANGED <<gtk, running, thread, effects>>

\* Mutant: the task is left to whoever runs it.
TimeOut_Leaves(r) ==
    /\ request[r].pc = "wait" /\ Slot(r) \notin done
    /\ gtk # <<"task", Slot(r)>>
    /\ Continue(r, "timeout", tasks)
    /\ UNCHANGED <<gtk, running, thread, effects>>

\* Mutant: once the server is being stopped, the wait has no end.
TimeOut_Never(r) ==
    /\ gtk # Joining
    /\ request[r].pc = "wait" /\ Slot(r) \notin done
    /\ gtk # <<"task", Slot(r)>>
    /\ Continue(r, "timeout", tasks \ {Slot(r)})
    /\ UNCHANGED <<gtk, running, thread, effects>>

\* Ten seconds have passed; the lock has to be free, and then the task is
\* taken back.
TimeOut(r) ==
    /\ request[r].pc = "wait" /\ Slot(r) \notin done
    /\ gtk # <<"task", Slot(r)>>
    /\ Continue(r, "timeout", tasks \ {Slot(r)})
    /\ UNCHANGED <<gtk, running, thread, effects>>

-----------------------------------------------------------------------------
(* Requests. *)

\* A tool call, or auto_edit with or without apply.
Arrive(r) ==
    /\ request[r].pc = "new" /\ thread = "listen"
    /\ \E rec \in {[New EXCEPT !.stage = "tool"], [New EXCEPT !.stage = "get"],
                   [New EXCEPT !.stage = "get", !.apply = TRUE]} :
        Dispatch(r, rec, tasks)
    /\ UNCHANGED <<gtk, running, thread, effects, reply>>

\* The analysis is done; one that fails is not applied.
Edited(r) ==
    /\ request[r].pc = "edit"
    /\ \/ /\ request[r].apply
          /\ Dispatch(r, [request[r] EXCEPT !.stage = "apply"], tasks)
       \/ Dispatch(r, [request[r] EXCEPT !.stage = "release",
                                         !.apply = FALSE], tasks)
    /\ UNCHANGED <<gtk, running, thread, effects, reply>>

-----------------------------------------------------------------------------

GtkStep == StartReturns \/ Joined \/ RunIdle \/ \E s \in Slots : TaskEnds(s)

ServerStep == Bind \/ Listen \/ Drained

RequestStep(r) == Return(r) \/ TimeOut(r) \/ Edited(r)

Next ==
    \/ Start \/ Stop \/ GtkStep \/ ServerStep
    \/ \E r \in Requests : Arrive(r) \/ RequestStep(r)

Spec == Init /\ [][Next]_vars

\* Threads run and waits end; nobody has to start or stop the server.
Fairness ==
    /\ WF_vars(GtkStep) /\ WF_vars(ServerStep)
    /\ \A r \in Requests : WF_vars(RequestStep(r))

FairSpec == Spec /\ Fairness

-----------------------------------------------------------------------------
(* Properties. *)

\* A task runs while its request waits for it: it refers to variables of the
\* request.
TaskWhileWaiting ==
    \A s \in Slots : gtk = <<"task", s>> =>
        request[s[1]].pc = "wait" /\ request[s[1]].stage = s[2]

\* A request that was told of a time-out has done nothing, and never will: the
\* client may send it again.
TimedOutDidNothing ==
    \A r \in Requests : reply[r] \in {"timeout", "failed"} =>
        /\ r \notin acted /\ r \notin held
        /\ \A stage \in Stages : <<r, stage>> \notin tasks

\* The server is gone only when no request uses it.
JoinedIsQuiet ==
    thread \in {"none", "ended"} => \A r \in Requests : ~InFlight(r)

\* mcpserver.cc: "Wait for GTK thread with timeout to prevent deadlock during
\* shutdown".  Every request is answered, also while the GTK thread waits for
\* the server, and a stop that has reached the server comes to an end.
EveryRequestAnswered ==
    \A r \in Requests : request[r].pc = "wait" ~> request[r].pc = "answered"

StopEnds == gtk = Joining /\ thread = "drain" ~> gtk = Free

\* The same comment, for every stop.
StopReturns == gtk = Joining ~> gtk = Free

\* mcpserver.h on start(): "Start the HTTP server on the given port".  It can
\* be tried again.
StartsAgain == gtk # Crashed

\* runAutoEditTool: "it takes a reference we release below".
ReferenceReleased ==
    \A r \in Requests : request[r].pc = "answered" /\ gtk = Free => r \notin held

\* The description of auto_edit: "apply: true also saves it as the photo's own
\* sidecar".  What was reported as applied has been saved.
AppliedIsSaved ==
    \A r \in Requests : reply[r] = "applied" => r \in acted

=============================================================================
