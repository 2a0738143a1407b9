------------------------------ MODULE LlmClient ------------------------------
(***************************************************************************)
(* LLMClient.summarize_events of src/honeypot_ai/llm.py: the API of the    *)
(* server is detected, a model is picked, and a request is built and       *)
(* posted.  The server behind the endpoint may be exchanged at any time.   *)
(***************************************************************************)
EXTENDS Naturals

CONSTANT MaxExchanged  \* bound: how often the server is exchanged

ASSUME LlmAssumption == MaxExchanged \in Nat

Servers == {"ollama", "open_webui", "chat_completions", "down"}

VARIABLES
  server,      \* what answers at the endpoint
  versioned,   \* has the endpoint /v1 in its path?
  model,       \* "set", "found" or "none"
  api_type,    \* self.api_type
  turn,        \* "idle", "detect", "list", "models", "build", "post", or an outcome
  body,        \* the API that the request's body is written for
  posted,      \* [url, body] as the last request was posted
  exchanged

llmVars == <<server, versioned, model, api_type, turn, body, posted, exchanged>>

NoRequest == [url |-> "none", body |-> "none"]

LlmInit ==
  /\ server = "down" /\ versioned = FALSE /\ model = "none" /\ api_type = "open_webui"
  /\ turn = "idle" /\ body = "none" /\ posted = NoRequest /\ exchanged = 0

ServerExchanged ==
  /\ turn # "idle" /\ exchanged < MaxExchanged
  /\ exchanged' = exchanged + 1 /\ server' \in Servers
  /\ UNCHANGED <<versioned, model, api_type, turn, body, posted>>

\* _detect_api_type: Open WebUI is also what remains if nothing answers
Detected ==
  CASE versioned -> "chat_completions"
    [] ~versioned /\ server = "ollama" -> "ollama"
    [] OTHER -> "open_webui"

\* _get_paths, by the part of the URL that it chooses
Path == IF versioned THEN "chat_completions" ELSE api_type

\* Faulty variant: the body is written for the API that was detected first
BodyAtFirst == IF turn = "detect" THEN Detected ELSE body

\* The body is written once the model is known
BodyFor == IF turn = "build" THEN api_type ELSE body

Start ==
  /\ turn = "idle"
  /\ server' \in Servers /\ versioned' \in BOOLEAN /\ model' \in {"set", "none"}
  /\ turn' = "detect"
  /\ UNCHANGED <<api_type, body, posted, exchanged>>

\* A client that is used again keeps its configuration
Again ==
  /\ turn \in {"answered", "empty"}
  /\ turn' = "detect" /\ model' = IF model = "found" THEN "none" ELSE model
  /\ UNCHANGED <<server, versioned, api_type, body, posted, exchanged>>

Detect ==
  /\ turn = "detect"
  /\ api_type' = Detected /\ body' = BodyFor
  /\ turn' = IF model = "set" THEN "build" ELSE "list"
  /\ UNCHANGED <<server, versioned, model, posted, exchanged>>

\* _resolve_model without a name: list_models detects the API once more
DetectAgain ==
  /\ turn = "list"
  /\ api_type' = Detected /\ turn' = "models"
  /\ UNCHANGED <<server, versioned, model, body, posted, exchanged>>

Models ==
  /\ turn = "models"
  /\ \/ server = Path /\ model' = "found" /\ turn' = "build"
     \/ model' = "none" /\ turn' = "empty"
  /\ UNCHANGED <<server, versioned, api_type, body, posted, exchanged>>

Build ==
  /\ turn = "build"
  /\ body' = BodyFor /\ turn' = "post"
  /\ UNCHANGED <<server, versioned, model, api_type, posted, exchanged>>

\* The answer has the expected shape, another one, or _request raises LLMError
Post ==
  /\ turn = "post"
  /\ posted' = [url |-> Path, body |-> body]
  /\ \/ server = Path /\ turn' \in {"answered", "empty", "raised"}
     \/ server # Path /\ turn' \in {"empty", "raised"}
  /\ UNCHANGED <<server, versioned, model, api_type, body, exchanged>>

LlmNext ==
  ServerExchanged \/ Start \/ Again \/ Detect \/ DetectAgain \/ Models \/ Build \/ Post

-----------------------------------------------------------------------------

(* However the server changes between the two detections, the body that is  *)
(* posted is the one that the posted URL expects (summarize_events picks    *)
(* the body after _resolve_model, _get_paths the URL).                      *)
BodyFitsUrl == posted.url = posted.body
=============================================================================
