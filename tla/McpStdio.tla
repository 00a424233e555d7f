------------------------------ MODULE McpStdio ------------------------------
(***************************************************************************)
(* The stdio MCP server of the toolkit (runtime/common/mcp_stdio.py):      *)
(* McpStdioServer.handle and the loop run_stdio around it.  A server       *)
(* answers one line at a time.  It speaks the legacy protocol (initialize, *)
(* then notifications/initialized) or the modern one, whose requests carry *)
(* their version and the client's capabilities, and the first request that *)
(* tells decides which.                                                    *)
(***************************************************************************)

CONSTANTS
  Servers,   \* the server processes
  Requests   \* the lines a client may send, see RequestType

Methods == {"initialize", "notifications/initialized", "server/discover", "ping",
            "tools/list", "tools/call", "other"}

\* version: the protocol of the metadata; caps: it has capabilities; sound: the
\* params are those of the method; id: the request wants an answer; wellFormed:
\* the line is within the size limit, is JSON and a JSON-RPC request.
RequestType == [method : Methods, version : {"none", "modern", "other"},
                caps : BOOLEAN, sound : BOOLEAN, id : BOOLEAN, wellFormed : BOOLEAN]

ASSUME RequestsAssumption == Requests \subseteq RequestType

VARIABLES era, initialized, ready

mcpVars == <<era, initialized, ready>>

McpTypeOK ==
  /\ era \in [Servers -> {"none", "legacy", "modern"}]
  /\ initialized \in [Servers -> BOOLEAN]
  /\ ready \in [Servers -> BOOLEAN]

McpInit ==
  /\ era = [s \in Servers |-> "none"]
  /\ initialized = [s \in Servers |-> FALSE]
  /\ ready = [s \in Servers |-> FALSE]

\* _validate_modern
IsModern(r) == r.version = "modern" /\ r.caps

\* A request that tells the era of a server that has none.
TellsModern(r) ==
  r.method # "initialize" /\ (r.method = "server/discover" \/ r.version # "none")

\* The error that precedes the dispatch of a method.
Refuses(s, r) ==
  \/ ~r.wellFormed
  \/ era[s] = "none" /\ TellsModern(r) /\ ~IsModern(r)
  \/ era[s] = "modern" /\ ~IsModern(r)
  \/ era[s] = "legacy" /\ (r.version = "modern" \/ r.method = "server/discover")

\* The era in which a request that was not refused is dispatched.
Entered(s, r) ==
  IF era[s] # "none" THEN era[s]
  ELSE CASE r.method = "initialize" -> "legacy"
         [] TellsModern(r)          -> "modern"
         [] OTHER                   -> "none"

\* Mutant of Confirms: the notification counts without its request.
ConfirmsUnasked(s, r) ==
  era[s] = "legacy" /\ ~r.id /\ r.method = "notifications/initialized"

Confirms(s, r) ==
  /\ era[s] = "legacy" /\ initialized[s]
  /\ ~r.id /\ r.method = "notifications/initialized"

Initializes(s, r) ==
  r.method = "initialize" /\ r.id /\ r.sound /\ era[s] # "modern" /\ ~initialized[s]

Dispatches(s, r) ==
  /\ ~Refuses(s, r) /\ r.id /\ r.method = "tools/call" /\ r.sound
  /\ Entered(s, r) = "modern" \/ ready[s]

\* handle, up to the call of the tool.
Handle(s, r) ==
  LET entered == Entered(s, r)
  IN IF Refuses(s, r) THEN UNCHANGED mcpVars
     ELSE /\ era' = [era EXCEPT ![s] = entered]
          /\ initialized' = [initialized EXCEPT ![s] = @ \/ Initializes(s, r)]
          /\ ready' = [ready EXCEPT ![s] = @ \/ entered = "modern" \/ Confirms(s, r)]

\* The client starts its server again.
Restart(s) ==
  /\ era' = [era EXCEPT ![s] = "none"]
  /\ initialized' = [initialized EXCEPT ![s] = FALSE]
  /\ ready' = [ready EXCEPT ![s] = FALSE]

\* Tools are open only to a client that has completed one of the two handshakes,
\* and a server that has served one protocol never accepts the other's handshake.
ToolsNegotiated ==
  \A s \in Servers : ready[s] => (era[s] = "legacy") = initialized[s] /\ era[s] # "none"

=============================================================================
