---------------------------- MODULE AdapterCalls ----------------------------
(***************************************************************************)
(* The broker's adapter registry and its calls to a provider.  The         *)
(* registry holds the bundled plugins and those of the adapter directory,  *)
(* and caches the module of the plugin the administrator selected; a call  *)
(* makes an adapter, has the guest plan its requests, sends them all at    *)
(* once and has the guest decode the replies.                              *)
(* Source: chatty-broker/src/adapters/runtime/mod.rs, wasm.rs,             *)
(* adapters.rs.                                                            *)
(***************************************************************************)
EXTENDS AdapterPlans

CONSTANTS Directories,   \* contents of the adapter directory: sets of manifests
          CallerOf,      \* concurrent broker tasks that use an adapter
          CallOperations,\* operations the callers ask for
          CallTimeouts   \* time limits they give (0: none, for a chat only)

VARIABLES plugins,       \* Registry.plugins: id -> kind; empty when loading failed
          chosen,        \* Registry.selected: the id and the cached module
          call           \* the callers' operations

callVars == <<plugins, chosen, call>>

NoPlugin == "none"

Canonical(id) == IF id = "openai" THEN "openai-compatible" ELSE id

----------------------------------------------------------------------------
(* Registry *)

\* One bad or duplicate manifest fails the whole load; the broker then does
\* not start.
GoodManifest(m) ==
  /\ m.id # "" /\ m.api = 1 /\ m.file # ""
  /\ m.kind \in {"inference", "image"}
  /\ Canonical(m.id) \notin DOMAIN Bundled

Loaded(entries) ==
  IF \A m \in entries : GoodManifest(m) /\ (\A n \in entries \ {m} : n.id # m.id)
    THEN [p \in DOMAIN Bundled \union {m.id : m \in entries} |->
            IF p \in DOMAIN Bundled THEN Bundled[p] ELSE (CHOOSE m \in entries : m.id = p).kind]
    ELSE [p \in {} |-> ""]

SelectKeepingModule(id) ==
  /\ id = NoPlugin \/ Canonical(id) \in DOMAIN plugins
  /\ chosen' = [chosen EXCEPT !.id = Canonical(id)]
  /\ UNCHANGED <<plugins, call>>

\* configuration_changed -> Registry::select: a new selection evicts the old
\* module at once.
Select(id) ==
  /\ id = NoPlugin \/ Canonical(id) \in DOMAIN plugins
  /\ chosen' = IF chosen.id = Canonical(id) THEN chosen ELSE [id |-> Canonical(id), module |-> NoPlugin]
  /\ UNCHANGED <<plugins, call>>

\* Only a module read from a file can fail to load (too large, imports, another
\* ABI); the bundled ones are built with the broker.
MayFailToLoad(id) == id \notin DOMAIN Bundled

NoCall == [at |-> "idle", module |-> NoPlugin, op |-> "", plan |-> Unsupported, bodies |-> <<>>, why |-> ""]

Failed(why) == [NoCall EXCEPT !.at = "failed", !.why = why]

\* make_adapter.  The native appliance needs no module; the catalogue's is
\* never cached; the selected plugin's is loaded under the selection's lock.
MakeAdapter(c, name, retain) ==
  LET id == Canonical(name)
      cached == retain /\ id # "hugging-face" /\ chosen.id = id
      made == [NoCall EXCEPT !.at = "made", !.module = id]
  IN /\ call[c].at = "idle"
     /\ \/ /\ id = "chatty-metal"
           /\ call' = [call EXCEPT ![c] = made] /\ UNCHANGED chosen
        \/ /\ id # "chatty-metal" /\ cached /\ chosen.module # NoPlugin
           /\ call' = [call EXCEPT ![c] = [made EXCEPT !.module = chosen.module]] /\ UNCHANGED chosen
        \/ /\ id # "chatty-metal" /\ id \in DOMAIN plugins /\ ~(cached /\ chosen.module # NoPlugin)
           /\ call' = [call EXCEPT ![c] = made]
           /\ chosen' = IF cached THEN [chosen EXCEPT !.module = id] ELSE chosen
        \/ /\ id # "chatty-metal" /\ ~(cached /\ chosen.module # NoPlugin)
           /\ id \notin DOMAIN plugins \/ MayFailToLoad(id)
           /\ call' = [call EXCEPT ![c] = Failed("load")] /\ UNCHANGED chosen
     /\ UNCHANGED plugins

----------------------------------------------------------------------------
(* A call *)

\* The FreeToken key is pinned to an origin; a URL elsewhere fails the call.
CredentialRefused(c) ==
  /\ call[c].at = "made" /\ call[c].module = "freetoken"
  /\ call' = [call EXCEPT ![c] = Failed("credential")]
  /\ UNCHANGED <<plugins, chosen>>

\* Operations whose model, job, search or workflow a guest may find invalid.
Named == ModelActions \union {"Pull", "Search", "Image", "ImageStatus", "ImageCancel"}

\* An installed guest of another author may plan anything.
PlansOf(module, op, timeout) ==
  IF module \in DOMAIN Bundled
    THEN {GuestPlan(module, op, timeout)} \union (IF op \in Named THEN {Unsupported} ELSE {})
  ELSE {NewPlan(<<GetOf(0)>>, "Models"), NewPlan(<<PostOf(0)>>, "Action"),
        NewPlan(<<[PostOf(timeout) EXCEPT !.own = FALSE]>>, "Completion")}

\* Operations of the built-in appliance client that use no plan at all.
NativeResult(op) ==
  IF op \in {"Models", "Complete", "Stream", "State"} THEN {"ok", "failed"}
  ELSE IF op \in {"Search", "ImageUnload"} THEN {"ok"}
  ELSE {"failed"}

CallAppliance(c, op) ==
  /\ call[c].at = "made" /\ call[c].module = "chatty-metal"
  /\ \E r \in NativeResult(op) : call' = [call EXCEPT ![c] = [@ EXCEPT !.at = r, !.op = op, !.why = "native"]]
  /\ UNCHANGED <<plugins, chosen>>

\* A fresh guest session plans the operation and the host checks the plan.
Prepare(c, op, timeout) ==
  /\ call[c].at = "made" /\ call[c].module # "chatty-metal"
  /\ \E plan \in PlansOf(call[c].module, op, timeout) :
       call' = [call EXCEPT ![c] =
                  IF plan = Unsupported THEN Failed("guest")
                  ELSE IF ~Fits(plan, AllowedFor(op, timeout))
                    THEN [Failed("refused") EXCEPT !.module = call[c].module]
                  ELSE [@ EXCEPT !.at = "sent", !.op = op, !.plan = Clamped(plan, AllowedFor(op, timeout)),
                                 !.bodies = [i \in DOMAIN plan.requests |-> ""]]]
  /\ UNCHANGED <<plugins, chosen>>

\* A stream is open once its content type is one the guest named.
StreamResult(k) == IF k.bodies[1] = "good" /\ k.plan.types # {} THEN "ok" ELSE "failed"

\* The guest's decoding of the replies, once all are there; an action's bodies
\* are not read.
Result(k) ==
  IF k.plan.stream
    THEN StreamResult(k)
    ELSE LET bodies == [i \in DOMAIN k.bodies |-> IF k.plan.response = "Action" THEN "good" ELSE k.bodies[i]]
             kind == IF k.module \in DOMAIN Bundled THEN GuestDecode(k.module, k.plan.response, bodies)
                     ELSE k.plan.response
         IN IF kind = "error" THEN "failed" ELSE "ok"

\* A reply arrives whole; the last one completes the call.
Reply(c, i, body) ==
  /\ call[c].at = "sent" /\ call[c].bodies[i] = ""
  /\ LET k == [call[c] EXCEPT !.bodies[i] = body]
     IN call' = [call EXCEPT ![c] = IF \E j \in DOMAIN k.bodies : k.bodies[j] = "" THEN k
                                    ELSE [k EXCEPT !.at = Result(k), !.why = "decode"]]
  /\ UNCHANGED <<plugins, chosen>>

\* An error status, a redirect, an oversized or unreadable reply, or a lost
\* connection of one request: the others are dropped with the call.
ReplyFails(c, i) ==
  /\ call[c].at = "sent" /\ call[c].bodies[i] = ""
  /\ call' = [call EXCEPT ![c] = Failed("http")]
  /\ UNCHANGED <<plugins, chosen>>

\* The request's time limit, when it has one.
ReplyTimesOut(c, i) ==
  /\ call[c].at = "sent" /\ call[c].bodies[i] = "" /\ call[c].plan.requests[i].timeout > 0
  /\ call' = [call EXCEPT ![c] = Failed("timeout")]
  /\ UNCHANGED <<plugins, chosen>>

CallReturns(c) ==
  /\ call[c].at \in {"ok", "failed"}
  /\ call' = [call EXCEPT ![c] = NoCall]
  /\ UNCHANGED <<plugins, chosen>>

CallInit ==
  /\ plugins \in {Loaded(entries) : entries \in Directories}
  /\ chosen = [id |-> NoPlugin, module |-> NoPlugin]
  /\ call = [c \in CallerOf |-> NoCall]

PluginNames == {"openai", NoPlugin} \union DOMAIN plugins

CallNext ==
  /\ plugins # [p \in {} |-> ""]
  /\ \/ \E id \in PluginNames : Select(id)
     \/ \E c \in CallerOf :
          \/ \E id \in PluginNames \ {NoPlugin}, retain \in BOOLEAN : MakeAdapter(c, id, retain)
          \/ CredentialRefused(c)
          \/ \E op \in CallOperations : CallAppliance(c, op)
          \/ \E op \in CallOperations, t \in CallTimeouts :
               (t = 0 => op \in {"Complete", "Stream"}) /\ Prepare(c, op, t)
          \/ \E i \in DOMAIN call[c].bodies :
               \/ \E body \in {"good", "bare", "error"} : Reply(c, i, body)
               \/ ReplyFails(c, i)
               \/ ReplyTimesOut(c, i)
          \/ CallReturns(c)

CallSpec == CallInit /\ [][CallNext]_callVars

\* Timers fire; the provider need not answer.
CallFairness == \A c \in CallerOf : WF_callVars(\E i \in DOMAIN call[c].bodies : ReplyTimesOut(c, i))

----------------------------------------------------------------------------
(* Properties *)

\* Host and guests agree.  The cached module is the selected plugin's: neither a
\* change of selection nor a call that captured an older one leaves another
\* module in the cache (runtime/mod.rs, select and make_adapter).  No plan of a
\* bundled guest is refused by the host, and every call of one whose replies are
\* all good succeeds (WasmAdapter::prepare against the translate of each adapter
\* crate).
PluginsAgree ==
  /\ chosen.module # NoPlugin => chosen.module = chosen.id /\ chosen.module \notin {"hugging-face", "chatty-metal"}
  /\ \A c \in CallerOf :
       /\ call[c].why = "refused" => call[c].module \notin DOMAIN Bundled
       /\ call[c].why = "decode" /\ (\A i \in DOMAIN call[c].bodies : call[c].bodies[i] = "good") => call[c].at = "ok"
=============================================================================
