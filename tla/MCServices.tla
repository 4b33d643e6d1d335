----------------------------- MODULE MCServices -----------------------------
(***************************************************************************)
(* What serves the models, one part at a time (`focus'): the appliance's   *)
(* server and its shard reader, and the broker's adapters (calls, waits    *)
(* for an image, and streams).                                             *)
(***************************************************************************)
EXTENDS MetalServer, ShardReader, AdapterCalls, AdapterImages, AdapterStream

CONSTANTS Page,    \* a connection that only asks for the status page
          Chat     \* one that asks for a reply

VARIABLE focus

TheAppliance == <<metalVars, readerVars>>
TheAdapters == <<callVars, imageVars, streamVars>>

Manifest(id, k) == [id |-> id, api |-> 1, file |-> "module", kind |-> k]

MCDirectories ==
  {{}, {Manifest("custom", "image")}, {Manifest("openai", "inference")}, {Manifest("custom", "catalogue")}}

ServicesInit ==
  /\ focus \in {"server", "reader", "calls", "images", "stream"}
  /\ MetalInit /\ ReaderInit /\ CallInit /\ ImageInit /\ StreamInit
  /\ kind[Page] = "http"
  /\ focus = "server" => kind[Chat] = "reply" /\ \A c \in Conn \ {Page, Chat} : kind[c] \in {"quick", "status"}
  /\ focus # "server" => \A c \in Conn : kind[c] = "http"
  /\ focus # "calls" => plugins = Bundled
  /\ focus # "stream" => reply = [kinds |-> <<>>, dialect |-> "sse"]

ServicesNext ==
  \/ focus = "server" /\ MetalNext /\ UNCHANGED <<focus, readerVars, TheAdapters>>
  \/ focus = "reader" /\ ReaderNext /\ UNCHANGED <<focus, metalVars, TheAdapters>>
  \/ focus = "calls" /\ CallNext /\ UNCHANGED <<focus, TheAppliance, imageVars, streamVars>>
  \/ focus = "images" /\ ImageNext /\ UNCHANGED <<focus, TheAppliance, callVars, streamVars>>
  \/ focus = "stream" /\ StreamNext /\ UNCHANGED <<focus, TheAppliance, callVars, imageVars>>

ServicesSpec ==
  /\ ServicesInit /\ [][ServicesNext]_<<focus, TheAppliance, TheAdapters>>
  /\ MetalFairness /\ ReaderFairness /\ CallFairness /\ ImageFairness

\* Nobody waits for ever: again and again there is no caller of the shard pool
\* whose read has not returned (store.rs), no call to a provider that never
\* answers, which the host limits even where the guest does not (chat streams
\* asked for without a limit excepted; WasmAdapter::prepare, send), and no wait
\* for an image that is never finished (generate_image).
EveryWaitEnds ==
  []<>(/\ \A c \in ReadCaller : reading[c].at = "idle"
       /\ \A c \in CallerOf : call[c].at = "sent" => call[c].op = "Stream"
       /\ \A i \in ImageCaller : wait[i].at \notin Active)
=============================================================================
