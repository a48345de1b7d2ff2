-------------------------- MODULE DiagnosticContext --------------------------
(***************************************************************************)
(* The diagnostic context of sdk/lua/protect.hpp: which function, resource,*)
(* task and timer a log line or an argument error is attributed to.  The   *)
(* context is one record per thread; a ScopedDiagnosticContext replaces it *)
(* for the extent of a C++ frame and puts the previous one back in its     *)
(* destructor.  The frames that own a scope are the trampoline of a module *)
(* function, Callback::call, and the dispatch of a task or timer.          *)
(*                                                                         *)
(* An error leaves a trampoline through luaL_error, a longjmp to the pcall *)
(* under it.  Whether that runs the destructor of the scope is the         *)
(* platform's choice (LongjmpUnwinds): it does with MSVC, and with glibc   *)
(* and the C build of Lua it does not.                                     *)
(***************************************************************************)
EXTENDS Naturals, Sequences

CONSTANTS
  Resource, NoResource,
  BodyFunction, TypedFunction,  \* registered by MTA_LUA_FUNCTION, MTA_LUA_FUNC
  NoFunction,
  Main, Worker,                 \* the server's thread and the pool's
  Id,                           \* task and timer ids; 0 is none
  LongjmpUnwinds,
  MaxDepth                      \* bound: frames on a thread's stack

Function == BodyFunction \cup TypedFunction
Thread == {Main} \cup Worker

ASSUME ContextAssumption ==
  /\ NoResource \notin Resource /\ NoFunction \notin Function
  /\ Main \notin Worker
  /\ Id \subseteq Nat \ {0}
  /\ LongjmpUnwinds \in BOOLEAN
  /\ MaxDepth \in Nat

VARIABLES
  context,     \* thread -> DiagnosticContext
  frames,      \* thread -> its frames, outermost first
  terminated   \* std::terminate, or the fail-fast exit of MSVC

vars == <<context, frames, terminated>>

DiagnosticContext ==
  [function : Function \cup {NoFunction}, resource : Resource \cup {NoResource},
   task_id : Id \cup {0}, timer_id : Id \cup {0}]

NoContext == [function |-> NoFunction, resource |-> NoResource, task_id |-> 0, timer_id |-> 0]

\* "handler" is Lua code the server calls: it owns no scope.
Frame ==
  [kind : {"handler", "function", "callback", "dispatch"},
   vm : Resource,                  \* the resource it runs for
   own : DiagnosticContext,        \* what its scope has set
   saved : DiagnosticContext]      \* previous_

\* The context a thread works on: thread_local.
Slot(t) == t

Top(t) == frames[t][Len(frames[t])]
RunsLua(t) == frames[t] # <<>> /\ Top(t).kind \in {"handler", "callback"}
RunsNative(t) == frames[t] # <<>> /\ Top(t).kind \in {"function", "dispatch"}
Alive == ~terminated

TypeOK ==
  /\ context \in [Thread -> DiagnosticContext]
  /\ frames \in [Thread -> Seq(Frame)]
  /\ terminated \in BOOLEAN

Init ==
  /\ context = [t \in Thread |-> NoContext]
  /\ frames = [t \in Thread |-> <<>>]
  /\ terminated = FALSE

-----------------------------------------------------------------------------
\* The constructor of a scope and set_resource(), in a new frame.
enter(t, kind, own) ==
  /\ Alive /\ Len(frames[t]) < MaxDepth
  /\ frames' = [frames EXCEPT ![t] =
       Append(@, [kind |-> kind, vm |-> own.resource, own |-> own, saved |-> context[Slot(t)]])]
  /\ context' = [context EXCEPT ![Slot(t)] = own]
  /\ UNCHANGED terminated

popped(t) == [frames EXCEPT ![t] = SubSeq(@, 1, Len(@) - 1)]

\* The destructor.
restored_Cleared(t) == [context EXCEPT ![Slot(t)] = NoContext]
restored(t) == [context EXCEPT ![Slot(t)] = Top(t).saved]

\* The server calls an event handler or a command of resource r.
handler_called(r) ==
  /\ Alive /\ frames[Main] = <<>> /\ MaxDepth > 0
  /\ frames' = [frames EXCEPT ![Main] =
       <<[kind |-> "handler", vm |-> r, own |-> NoContext, saved |-> NoContext]>>]
  /\ UNCHANGED <<context, terminated>>

handler_returned ==
  /\ Alive /\ frames[Main] # <<>> /\ Top(Main).kind = "handler"
  /\ frames' = popped(Main)
  /\ UNCHANGED <<context, terminated>>

\* protected_call_named: Lua calls a registered function.
protected_call_named(f) ==
  /\ RunsLua(Main)
  /\ enter(Main, "function",
           [NoContext EXCEPT !.function = f, !.resource = Top(Main).vm])

\* Callback::call, past its checks, from a function or a completion; the
\* callback may belong to any running resource.
call(r) ==
  /\ RunsNative(Main)
  /\ enter(Main, "callback", [NoContext EXCEPT !.resource = r])

\* pump() and worker_loop(): around a completion, a timer's, or work().
pump_task(r, id) ==
  /\ frames[Main] = <<>>
  /\ enter(Main, "dispatch", [NoContext EXCEPT !.resource = r, !.task_id = id])

pump_timer(r, id) ==
  /\ frames[Main] = <<>>
  /\ enter(Main, "dispatch", [NoContext EXCEPT !.resource = r, !.timer_id = id])

worker_loop(w, r, id) ==
  /\ frames[w] = <<>>
  /\ enter(w, "dispatch", [NoContext EXCEPT !.resource = r, !.task_id = id])

\* A frame is left by return, or by an exception caught outside its scope; a
\* Lua error under Callback::call ends at its pcall and is a return of it.
leave(t) ==
  /\ Alive /\ frames[t] # <<>> /\ Top(t).kind # "handler"
  /\ context' = restored(t)
  /\ frames' = popped(t)
  /\ UNCHANGED terminated

\* The entry point of a typed function is noexcept (holder::entry), and an
\* unwinding longjmp may not leave it; the trampoline of a body is not.
MayLeave(f) == f \in TypedFunction => ~LongjmpUnwinds

\* protected_call: the body throws, and luaL_error jumps to the pcall below.
protected_call_error ==
  /\ Alive /\ frames[Main] # <<>> /\ Top(Main).kind = "function"
  /\ \/ /\ MayLeave(Top(Main).own.function)
        /\ context' = IF LongjmpUnwinds THEN restored(Main) ELSE context
        /\ frames' = popped(Main)
        /\ UNCHANGED terminated
     \/ /\ ~MayLeave(Top(Main).own.function)
        /\ terminated' = TRUE
        /\ UNCHANGED <<context, frames>>

Next ==
  \/ \E r \in Resource : handler_called(r) \/ call(r)
  \/ handler_returned
  \/ \E f \in Function : protected_call_named(f)
  \/ \E r \in Resource, id \in Id : pump_task(r, id) \/ pump_timer(r, id)
  \/ \E w \in Worker, r \in Resource, id \in Id : worker_loop(w, r, id)
  \/ \E t \in Thread : leave(t)
  \/ protected_call_error

Spec == Init /\ [][Next]_vars

-----------------------------------------------------------------------------
(* Properties.                                                             *)

\* What runs now: the innermost frame, in whatever thread.
Attribution(t) == IF frames[t] = <<>> THEN NoContext ELSE Top(t).own

\* Where a longjmp unwinds: a message or an argument error is attributed to the
\* frame that emits it, through every nesting of calls, callbacks, dispatches
\* and errors, and never to another thread's work.
ContextIsCurrent == \A t \in Thread : context[t] = Attribution(t)

\* What makes it inductive: every scope holds the attribution of the frame
\* under it, and handlers are outermost.
SavedInv ==
  \A t \in Thread : \A i \in 1..Len(frames[t]) :
    /\ frames[t][i].saved = IF i = 1 THEN NoContext ELSE frames[t][i - 1].own
    /\ frames[t][i].kind = "handler" => i = 1 /\ frames[t][i].own = NoContext

IInv == TypeOK /\ SavedInv /\ ContextIsCurrent

\* "a log emitted outside a module call is never attributed to a stale call
\* site" (protect.hpp:21).
NothingStaleOutside ==
  \A t \in Thread : frames[t] = <<>> => context[t] = NoContext

\* "Any uncaught C++ exception is caught by the trampoline and becomes a Lua
\* error: the server does not crash." (GUIDES.md:179)
ErrorsBecomeLuaErrors == ~terminated

=============================================================================
