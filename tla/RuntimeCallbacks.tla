--------------------------- MODULE RuntimeCallbacks ---------------------------
(***************************************************************************)
(* The process-global callback table of the host runtime                   *)
(* (jadren-runtime): the ABI handshake, registration of the logging and    *)
(* profiler callbacks, and dispatch.  Five atomics hold the table, one     *)
(* address per callback and one context shared by all of them; there is no *)
(* lock, so a registration is nine separate stores and a dispatch is two   *)
(* separate loads and a call.                                              *)
(*                                                                         *)
(* A registration is named by its number, in the order the calls were      *)
(* accepted.  The address of its callback in a slot and the context it     *)
(* stores are represented by that number, so that a pair loaded by a       *)
(* dispatcher shows which registrations its halves come from; an address   *)
(* of 0 is the null pointer.  A store is a step at the moment it becomes   *)
(* visible to the other threads; release stores do so in program order and *)
(* acquire loads read in program order.  A registration is over when its   *)
(* last store is visible.                                                  *)
(***************************************************************************)
EXTENDS Naturals, Sequences

CONSTANTS Registrars,        \* threads that call set_callbacks
          Dispatchers,       \* threads that log or take profiler samples
          Tables,            \* the sets of callbacks a host may register
          MaxRegistrations   \* bound: accepted calls of set_callbacks

ASSUME TablesAssumption == Tables \subseteq SUBSET {"log", "begin", "end", "counter"}

\* The order in which set_callbacks stores the four addresses.
SlotOrder == <<"log", "begin", "end", "counter">>
CallbackSlots == {"log", "begin", "end", "counter"}

VARIABLES initialized,  \* RUNTIME_STATE
          address,      \* the four callback atomics: a registration, or 0
          context,      \* CALLBACK_CONTEXT: the registration that stored it
          tables,       \* the callbacks each accepted registration was given
          registrar,    \* per registrar: the call it is in
          dispatcher,   \* per dispatcher: the call it is in
          late          \* per dispatcher: calls of a replaced callback, see Call

callbackVars == <<initialized, address, context, tables, registrar, dispatcher, late>>

NotRegistering == [r |-> 0, step |-> 0]
NotDispatching == [at |-> "idle", slot |-> "log", f |-> 0, c |-> 0]

CallbacksInit ==
  /\ initialized = FALSE
  /\ address = [s \in CallbackSlots |-> 0]
  /\ context = 0
  /\ tables = <<>>
  /\ registrar = [t \in Registrars |-> NotRegistering]
  /\ dispatcher = [d \in Dispatchers |-> NotDispatching]
  /\ late = [d \in Dispatchers |-> 0]

-----------------------------------------------------------------------------
(* initialize: an incompatible host is turned away, and of the compatible  *)
(* ones the first wins the exchange and the others learn it is done.       *)
Compatible(major, minor) == major = "same" /\ minor # "newer"

Initialize(major, minor) ==
  /\ Compatible(major, minor)
  /\ initialized' = TRUE
  /\ UNCHANGED <<address, context, tables, registrar, dispatcher, late>>

-----------------------------------------------------------------------------
(* set_callbacks.  A call is refused, and changes nothing, before          *)
(* initialization and when a context comes without any callback; otherwise *)
(* its nine stores follow.                                                 *)
BeginRegistration(t, given) ==
  /\ initialized
  /\ registrar[t] = NotRegistering
  /\ Len(tables) < MaxRegistrations
  /\ tables' = Append(tables, given)
  /\ registrar' = [registrar EXCEPT ![t] = [r |-> Len(tables) + 1, step |-> 1]]
  /\ late' = [d \in Dispatchers |-> 0]
  /\ UNCHANGED <<initialized, address, context, dispatcher>>

\* Fault: the context is published after the addresses.
ContextLast(k) ==
  CASE k \in 1..4 -> [kind |-> "clear", slot |-> SlotOrder[k]]
    [] k \in 5..8 -> [kind |-> "publish", slot |-> SlotOrder[k - 4]]
    [] OTHER -> [kind |-> "context", slot |-> "log"]

\* The nine stores in program order: "Disable first, publish the context, then
\* publish callback addresses".
Store(k) ==
  CASE k \in 1..4 -> [kind |-> "clear", slot |-> SlotOrder[k]]
    [] k = 5 -> [kind |-> "context", slot |-> "log"]
    [] OTHER -> [kind |-> "publish", slot |-> SlotOrder[k - 5]]

NextStore(t) ==
  registrar' = [registrar EXCEPT ![t] =
                  IF @.step = 9 THEN NotRegistering ELSE [r |-> @.r, step |-> @.step + 1]]

\* Fault: the addresses of the replaced table stay until they are overwritten.
KeepAddress(s) == address[s]

Cleared(s) == 0

ClearAddress(t) ==
  LET store == Store(registrar[t].step) IN
  /\ registrar[t] # NotRegistering
  /\ store.kind = "clear"
  /\ address' = [address EXCEPT ![store.slot] = Cleared(store.slot)]
  /\ NextStore(t)
  /\ UNCHANGED <<initialized, context, tables, dispatcher, late>>

\* The caller's context, or null for a table without callbacks.
PublishContext(t) ==
  /\ registrar[t] # NotRegistering
  /\ Store(registrar[t].step).kind = "context"
  /\ context' = registrar[t].r
  /\ NextStore(t)
  /\ UNCHANGED <<initialized, address, tables, dispatcher, late>>

PublishAddress(t) ==
  LET store == Store(registrar[t].step)
      r == registrar[t].r
  IN
  /\ r # 0
  /\ store.kind = "publish"
  /\ address' = [address EXCEPT ![store.slot] = IF store.slot \in tables[r] THEN r ELSE 0]
  /\ NextStore(t)
  /\ UNCHANGED <<initialized, context, tables, dispatcher, late>>

SetCallbacks(t) == ClearAddress(t) \/ PublishContext(t) \/ PublishAddress(t)

-----------------------------------------------------------------------------
(* log, profiler_begin_sample, profiler_end_sample and profiler_counter    *)
(* share one shape: load the address, give up when it is null, load the    *)
(* context, call.  The dispatcher returns when the callback does.          *)
LoadAddress(d, s) ==
  /\ initialized
  /\ dispatcher[d].at = "idle"
  /\ address[s] # 0
  /\ dispatcher' = [dispatcher EXCEPT ![d] =
                      [at |-> "loaded", slot |-> s, f |-> address[s], c |-> 0]]
  /\ UNCHANGED <<initialized, address, context, tables, registrar, late>>

LoadContext(d) ==
  /\ dispatcher[d].at = "loaded"
  /\ dispatcher' = [dispatcher EXCEPT ![d].at = "ready", ![d].c = context]
  /\ UNCHANGED <<initialized, address, context, tables, registrar, late>>

\* The registration a host may take to be in force: the newest one, unless a
\* call of set_callbacks is still running.
Settled(r) == Len(tables) = r /\ \A t \in Registrars : registrar[t] = NotRegistering

\* The callback is entered.  late counts, since the stores of the
\* last registration are visible, the entries into a callback it replaced.
Call(d) ==
  /\ dispatcher[d].at = "ready"
  /\ dispatcher' = [dispatcher EXCEPT ![d].at = "calling"]
  /\ late' = IF Settled(Len(tables)) /\ dispatcher[d].f < Len(tables)
             THEN [late EXCEPT ![d] = @ + 1] ELSE late
  /\ UNCHANGED <<initialized, address, context, tables, registrar>>

\* Fault: the dispatcher keeps the address for its next call.
AddressKept(d) == [dispatcher[d] EXCEPT !.at = "loaded"]

Returned(d) == NotDispatching

Return(d) ==
  /\ dispatcher[d].at = "calling"
  /\ dispatcher' = [dispatcher EXCEPT ![d] = Returned(d)]
  /\ UNCHANGED <<initialized, address, context, tables, registrar, late>>

-----------------------------------------------------------------------------
CallbacksNext ==
  \/ \E major \in {"same", "other"}, minor \in {"older", "same", "newer"} :
        Initialize(major, minor)
  \/ \E t \in Registrars, given \in Tables : BeginRegistration(t, given)
  \/ \E t \in Registrars : SetCallbacks(t)
  \/ \E d \in Dispatchers, s \in CallbackSlots : LoadAddress(d, s)
  \/ \E d \in Dispatchers : LoadContext(d) \/ Call(d) \/ Return(d)

CallbacksSpec == CallbacksInit /\ [][CallbacksNext]_callbackVars

-----------------------------------------------------------------------------
TypeOK ==
  /\ initialized \in BOOLEAN
  /\ tables \in Seq(SUBSET CallbackSlots)
  /\ address \in [CallbackSlots -> 0..Len(tables)]
  /\ context \in 0..Len(tables)
  /\ registrar \in [Registrars -> [r : 0..Len(tables), step : 0..9]]
  /\ dispatcher \in [Dispatchers ->
                        [at : {"idle", "loaded", "ready", "calling"}, slot : CallbackSlots,
                         f : 0..Len(tables), c : 0..Len(tables)]]
  /\ late \in [Dispatchers -> Nat]

(* set_callbacks, "Disable first, publish the context, then publish        *)
(* callback addresses": at every moment, in the middle of a registration   *)
(* too, an address that can be loaded belongs to the registration whose    *)
(* context is published.                                                   *)
PublishedPairsMatch == \A s \in CallbackSlots : address[s] # 0 => address[s] = context

(* "Acquire dispatch loads cannot call a newly published function with an  *)
(* uninitialized context": a callback is entered with the context of its   *)
(* own registration or of a later one, never of an earlier one.            *)
ContextNotOlder ==
  \A d \in Dispatchers :
    dispatcher[d].at \in {"ready", "calling"} => dispatcher[d].c >= dispatcher[d].f

(* "Replacing a table while callbacks are executing is supported as a      *)
(* best-effort transition": once the stores of set_callbacks are visible,  *)
(* a thread that had loaded an address enters a replaced callback at most  *)
(* once.                                                                   *)
OneLateCall == \A d \in Dispatchers : late[d] <= 1
=============================================================================
