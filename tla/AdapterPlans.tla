---------------------------- MODULE AdapterPlans ----------------------------
(***************************************************************************)
(* The adapter contract, as operators.  A guest (a bundled WASM module)    *)
(* turns a neutral operation into an HTTP plan and the replies into a      *)
(* result; the host (WasmAdapter::prepare) holds every plan to what the    *)
(* operation allows.  Sources: chatty-adapters/* and                       *)
(* chatty-broker/src/adapters/runtime/mod.rs.                              *)
(*                                                                         *)
(* Addresses and bodies are left out: a request is its method, whether it  *)
(* stays on the configured origin, and its time limit in milliseconds (0:  *)
(* none).  A reply body is "good", "bare" (valid JSON without the field    *)
(* the guest needs) or "error" (the provider's error object).              *)
(***************************************************************************)
EXTENDS Integers, Sequences, FiniteSets

\* AdapterRequest, the four model actions told apart.
Operation ==
  {"Models", "Complete", "Stream", "Pull", "State", "Download", "Delete", "Load", "Unload", "Search",
   "Image", "ImageStatus", "ImageCancel", "ImageUnload"}

ModelActions == {"Download", "Delete", "Load", "Unload"}

\* The bundled plugins and their kinds; chatty-metal is built into the broker.
Bundled ==
  [p \in {"chatty-metal", "openai-compatible", "freetoken", "ollama", "hugging-face", "comfyui"} |->
     CASE p = "hugging-face" -> "catalogue"
       [] p = "comfyui" -> "image"
       [] OTHER -> "inference"]

SixHours == 6 * 60 * 60 * 1000
OneMinute == 60 * 1000
TwentySeconds == 20 * 1000
TenSeconds == 10 * 1000
MaxMessage == 8        \* MiB, MAX_MESSAGE_BYTES
SearchLimit == 2       \* MiB

Least(a, b) == IF a < b THEN a ELSE b

----------------------------------------------------------------------------
(* Guests *)

GetOf(timeout) == [method |-> "get", own |-> TRUE, timeout |-> timeout]
PostOf(timeout) == [method |-> "post", own |-> TRUE, timeout |-> timeout]

NewPlan(requests, response) ==
  [requests |-> requests, response |-> response, stream |-> FALSE, limit |-> MaxMessage, types |-> {}]

\* A guest's refusal of an operation it has no translation for.
Unsupported == NewPlan(<<>>, "none")

StreamPlan(requests, response, mime) ==
  [requests |-> requests, response |-> response, stream |-> TRUE, limit |-> MaxMessage, types |-> mime]

ChatPlan(timeout, stream, mime) ==
  IF stream THEN StreamPlan(<<PostOf(timeout)>>, "Completion", mime) ELSE NewPlan(<<PostOf(timeout)>>, "Completion")

OpenAiPlan(op, timeout) ==
  CASE op = "Models"   -> NewPlan(<<GetOf(timeout)>>, "Models")
    [] op = "Complete" -> ChatPlan(timeout, FALSE, {"sse"})
    [] op = "Stream"   -> ChatPlan(timeout, TRUE, {"sse"})
    [] OTHER           -> Unsupported

\* The serving API has no lifecycle; everything else but its health is the
\* OpenAI translation (seed and top_k only change the body).
FreeTokenPlan(op, timeout) ==
  CASE op \in ModelActions \union {"Search"} -> Unsupported
    [] op = "State" -> NewPlan(<<GetOf(TwentySeconds)>>, "State")
    [] OTHER        -> OpenAiPlan(op, timeout)

NdJson == {"ndjson", "json"}

OllamaPlan(op, timeout) ==
  CASE op = "Models"   -> NewPlan(<<GetOf(timeout)>>, "Models")
    [] op = "Complete" -> ChatPlan(timeout, FALSE, NdJson)
    [] op = "Stream"   -> ChatPlan(timeout, TRUE, NdJson)
    [] op = "Pull"     -> StreamPlan(<<PostOf(SixHours)>>, "Action", NdJson)
    [] op = "State"    -> NewPlan(<<GetOf(TwentySeconds), GetOf(TwentySeconds), GetOf(TwentySeconds)>>, "State")
    [] op \in ModelActions ->
         NewPlan(<<[PostOf(SixHours) EXCEPT !.method = IF op = "Delete" THEN "delete" ELSE "post"]>>, "Action")
    [] OTHER           -> Unsupported

ComfyPlan(op, timeout) ==
  CASE op = "Models"      -> NewPlan(<<GetOf(timeout), GetOf(timeout)>>, "Models")
    [] op = "Image"       -> NewPlan(<<PostOf(Least(timeout, OneMinute))>>, "Image")
    [] op = "ImageStatus" -> NewPlan(<<GetOf(TwentySeconds)>>, "Image")
    [] op = "ImageCancel" -> NewPlan(<<PostOf(TenSeconds), PostOf(TenSeconds)>>, "Action")
    [] op = "ImageUnload" -> NewPlan(<<PostOf(TwentySeconds)>>, "Action")
    [] OTHER              -> Unsupported

HuggingFacePlan(op) ==
  IF op = "Search" THEN [NewPlan(<<GetOf(TwentySeconds)>>, "Search") EXCEPT !.limit = SearchLimit] ELSE Unsupported

GuestPlan(plugin, op, timeout) ==
  CASE plugin = "openai-compatible" -> OpenAiPlan(op, timeout)
    [] plugin = "freetoken"         -> FreeTokenPlan(op, timeout)
    [] plugin = "ollama"            -> OllamaPlan(op, timeout)
    [] plugin = "comfyui"           -> ComfyPlan(op, timeout)
    [] plugin = "hugging-face"      -> HuggingFacePlan(op)
    [] OTHER                        -> Unsupported

\* What a guest makes of the replies: the kind of its result, or "error".
OpenAiDecode(kind, bodies) ==
  IF bodies[1] = "error" \/ kind \notin {"Models", "Completion"} \/ (kind = "Models" /\ bodies[1] = "bare")
    THEN "error" ELSE kind

FreeTokenDecode(kind, bodies) ==
  IF kind = "State" THEN (IF bodies[1] = "good" THEN "State" ELSE "error") ELSE OpenAiDecode(kind, bodies)

OllamaDecode(kind, bodies) ==
  IF \/ kind \notin {"Models", "Completion", "Action", "State"}
     \/ kind = "Models" /\ bodies[1] # "good"
     \/ kind = "State" /\ Len(bodies) # 3
    THEN "error" ELSE kind

ComfyDecode(kind, bodies) ==
  IF \/ kind \notin {"Models", "Action", "Image"}
     \/ kind = "Models" /\ \E i \in DOMAIN bodies : bodies[i] # "good"
     \/ kind = "Image" /\ bodies[1] = "error"
    THEN "error" ELSE kind

GuestDecode(plugin, kind, bodies) ==
  CASE plugin = "openai-compatible" -> OpenAiDecode(kind, bodies)
    [] plugin = "freetoken"         -> FreeTokenDecode(kind, bodies)
    [] plugin = "ollama"            -> OllamaDecode(kind, bodies)
    [] plugin = "comfyui"           -> ComfyDecode(kind, bodies)
    [] OTHER                        -> IF kind = "Search" /\ bodies[1] = "good" THEN "Search" ELSE "error"

----------------------------------------------------------------------------
(* The host *)

\* What an operation allows: result, streaming, time budget, methods, number
\* of requests and size of the reply.
Allows(response, stream, timeout, methods, requests, limit) ==
  [response |-> response, stream |-> stream, timeout |-> timeout, methods |-> methods,
   requests |-> requests, limit |-> limit]

AllowedFor(op, timeout) ==
  CASE op = "Models"      -> Allows("Models", FALSE, timeout, {"get"}, 4, MaxMessage)
    [] op = "Complete"    -> Allows("Completion", FALSE, IF timeout = 0 THEN SixHours ELSE timeout, {"post"}, 1, MaxMessage)
    [] op = "Stream"      -> Allows("Completion", TRUE, timeout, {"post"}, 1, MaxMessage)
    [] op = "State"       -> Allows("State", FALSE, TwentySeconds, {"get"}, 4, MaxMessage)
    [] op = "Pull"        -> Allows("Action", TRUE, SixHours, {"post"}, 1, MaxMessage)
    [] op \in ModelActions -> Allows("Action", FALSE, SixHours, {"post", "delete"}, 1, MaxMessage)
    [] op = "Search"      -> Allows("Search", FALSE, TwentySeconds, {"get"}, 1, SearchLimit)
    [] op = "Image"       -> Allows("Image", FALSE, timeout, {"post"}, 1, MaxMessage)
    [] op = "ImageStatus" -> Allows("Image", FALSE, TwentySeconds, {"get"}, 1, MaxMessage)
    [] op = "ImageUnload" -> Allows("Action", FALSE, TwentySeconds, {"post"}, 1, MaxMessage)
    [] op = "ImageCancel" -> Allows("Action", FALSE, TenSeconds, {"post", "delete"}, 2, MaxMessage)

ValidPlan(plan) ==
  /\ Len(plan.requests) \in 1 .. 4
  /\ plan.limit \in 1 .. MaxMessage
  /\ \A i \in DOMAIN plan.requests : plan.requests[i].own

Fits(plan, allowed) ==
  /\ ValidPlan(plan)
  /\ plan.response = allowed.response /\ plan.stream = allowed.stream
  /\ Len(plan.requests) <= allowed.requests
  /\ \A i \in DOMAIN plan.requests : plan.requests[i].method \in allowed.methods

TimeLimitIfSet(timeout, most) == IF most = 0 THEN timeout ELSE Least(timeout, most)

\* A request without a time limit gets the operation's, if that has one.
TimeLimit(timeout, most) ==
  IF most = 0 THEN timeout ELSE IF timeout = 0 THEN most ELSE Least(timeout, most)

\* The plan the host runs: limits lowered to the operation's, never raised.
Clamped(plan, allowed) ==
  LET Lowered(q) == [q EXCEPT !.timeout = TimeLimit(q.timeout, allowed.timeout)]
  IN [plan EXCEPT !.limit = Least(plan.limit, allowed.limit),
                  !.requests = [i \in DOMAIN plan.requests |-> Lowered(plan.requests[i])]]
=============================================================================
