----------------------------- MODULE Providers -----------------------------
(***************************************************************************)
(* Which client an agent gets for the model it is set to, and which of what   *)
(* is configured reaches that client.  Options are lists of settings, grouped  *)
(* by kind of client; a group that is given again replaces the first.         *)
(*                                                                         *)
(* A client is what it speaks, where it sends, and how; the libraries behind   *)
(* it are external.                                                         *)
(***************************************************************************)
EXTENDS Naturals, Sequences, FiniteSets

VARIABLES
    question,   \* an agent, its settings, and what the environment has
    answer      \* <<>>, or the set of one client or, if there is none, the empty one

vars == <<question, answer>>

Gateways == [groq |-> "groq", xai |-> "xai", openrouter |-> "openrouter", local |-> "LOCAL_ENDPOINT"]
Names == {"openai", "anthropic", "gemini", "copilot", "bedrock", "azure", "vertexai"}
         \cup DOMAIN Gateways

Configurations ==
    [agent : {"coder", "task"}, provider : Names \cup {"other"}, canReason : BOOLEAN,
     listed : {"yes", "unknown model", "no provider", "disabled"},
     base : {"", "gateway"}, key : {"", "key"}, effort : {"", "high", "extreme"},
     env : BOOLEAN]     \* Azure's endpoint, GitHub's token, or a region that has a name

-----------------------------------------------------------------------------
(* The client of a kind.  A setting is a pair.                                *)

Given(settings, what, default) ==
    LET at == {i \in DOMAIN settings : settings[i][1] = what}
    IN IF at = {} THEN default ELSE settings[CHOOSE i \in at : \A j \in at : j <= i][2]

WithReasoningEffort(effort) ==
    <<"effort", IF effort \in {"low", "medium", "high"} THEN effort ELSE "medium">>

Client(speaks, base, key) ==
    [speaks |-> speaks, base |-> base, key |-> key, effort |-> "", thinks |-> FALSE,
     caches |-> FALSE, works |-> TRUE]

NewOpenAIClient(o) ==
    [Client("openai", Given(o.openai, "base", ""), o.key)
        EXCEPT !.effort = Given(o.openai, "effort", "medium")]

NewAnthropicClient(o) ==
    [Client("anthropic",
            IF Given(o.anthropic, "bedrock", FALSE) THEN "aws" ELSE Given(o.anthropic, "base", ""),
            o.key)
        EXCEPT !.thinks = Given(o.anthropic, "thinks", FALSE),
               !.caches = Given(o.anthropic, "caches", TRUE)]

\* The library may refuse to make a client; the first use then panics.
NewGeminiClient(o, made) == [Client("gemini", "", o.key) EXCEPT !.works = made]
NewVertexAIClient(made) == [Client("gemini", "VERTEXAI_PROJECT", "") EXCEPT !.works = made]

\* Without an endpoint of Azure's in the environment it is a client of OpenAI.
NewAzureClient(o) ==
    IF question.env THEN Client("openai", "AZURE_OPENAI_ENDPOINT", o.key) ELSE NewOpenAIClient(o)

\* A model that is not Anthropic's gets a client that fails at every use; so does a
\* region whose name is too short.
NewBedrockClient(o, anthropics) ==
    IF ~question.env \/ ~anthropics THEN [Client("anthropic", "aws", o.key) EXCEPT !.works = FALSE]
    ELSE NewAnthropicClient(
            [o EXCEPT !.anthropic = @ \o << <<"bedrock", TRUE>>, <<"caches", FALSE>> >>])

\* The token of the environment, of the settings or of another program of GitHub's is
\* exchanged for one of Copilot's.
NewCopilotClient(o, file, exchanged) ==
    LET token == IF question.env THEN "GITHUB_TOKEN" ELSE IF o.key # "" THEN o.key ELSE file
    IN IF token = "" \/ ~exchanged THEN [Client("openai", "", "") EXCEPT !.works = FALSE]
       ELSE Client("openai", "copilot", token)

-----------------------------------------------------------------------------

\* A plausible bug: a gateway's address is given as a group of its own.
GatewayAlone(o, name) == [o EXCEPT !.openai = << <<"base", Gateways[name]>> >>]

Gateway(o, name) == [o EXCEPT !.openai = Append(@, <<"base", Gateways[name]>>)]

NewProvider(name, o) ==
    CASE name = "copilot"   -> {NewCopilotClient(o, f, x) : f \in {"", "hosts.json"}, x \in BOOLEAN}
      [] name = "anthropic" -> {NewAnthropicClient(o)}
      [] name = "openai"    -> {NewOpenAIClient(o)}
      [] name = "gemini"    -> {NewGeminiClient(o, x) : x \in BOOLEAN}
      [] name = "bedrock"   -> {NewBedrockClient(o, x) : x \in BOOLEAN}
      [] name = "azure"     -> {NewAzureClient(o)}
      [] name = "vertexai"  -> {NewVertexAIClient(x) : x \in BOOLEAN}
      [] name \in DOMAIN Gateways -> {NewOpenAIClient(Gateway(o, name))}
      [] OTHER              -> {}

\* WithOpenAIOptions, WithAnthropicOptions
WithEndpoint(o) ==
    IF question.base = "" THEN o
    ELSE IF question.provider = "openai"
         THEN [o EXCEPT !.openai = << <<"base", question.base>> >>]
    ELSE IF question.provider = "anthropic"
         THEN [o EXCEPT !.anthropic = << <<"base", question.base>> >>]
    ELSE o

WithReasoning(o) ==
    IF question.provider = "openai" \/ (question.provider = "local" /\ question.canReason)
    THEN [o EXCEPT !.openai = <<WithReasoningEffort(question.effort)>>]
    ELSE IF question.provider = "anthropic" /\ question.canReason /\ question.agent = "coder"
         THEN [o EXCEPT !.anthropic = << <<"thinks", TRUE>> >>]
    ELSE o

CreateAgentProvider ==
    IF question.listed # "yes" THEN {}
    ELSE NewProvider(question.provider,
            WithReasoning(WithEndpoint([key |-> question.key, openai |-> <<>>, anthropic |-> <<>>])))

Init == question \in Configurations /\ answer = <<>>

Create ==
    /\ answer = <<>>
    /\ IF CreateAgentProvider = {} THEN answer' = <<{}>>
       ELSE \E c \in CreateAgentProvider : answer' = <<{c}>>
    /\ UNCHANGED question

Next == Create

Spec == Init /\ [][Next]_vars

-----------------------------------------------------------------------------

IsClient == answer # <<>> /\ answer[1] # {}
TheClient == CHOOSE c \in answer[1] : TRUE

Replaced ==
    \/ question.provider = "openai"
    \/ question.provider = "anthropic" /\ question.canReason /\ question.agent = "coder"

(* What is configured or belongs to a provider reaches its client: a gateway's address
   together with the effort that was set, an endpoint of Azure's, the absence of caching at
   Bedrock.  A client that works has a key or token from somewhere, or leaves it to its
   library.  Excepted is the endpoint of a provider that is given other options too: the
   second group replaces it. *)
OptionsReach ==
    /\ answer = <<{}>> <=>
          answer # <<>> /\ (question.listed # "yes" \/ question.provider = "other")
    /\ IsClient /\ TheClient.works =>
        LET c == TheClient
            p == question.provider
        IN /\ p \in DOMAIN Gateways => c.base = Gateways[p]
           /\ p = "local" /\ question.canReason /\ question.effort = "high" => c.effort = "high"
           /\ p \notin DOMAIN Gateways /\ ~Replaced => c.base =
               (CASE p = "anthropic" -> question.base
                  [] p = "azure" /\ question.env -> "AZURE_OPENAI_ENDPOINT"
                  [] p = "bedrock" -> "aws"
                  [] p = "vertexai" -> "VERTEXAI_PROJECT"
                  [] p = "copilot" -> "copilot"
                  [] OTHER -> "")
           /\ c.thinks => c.speaks = "anthropic" /\ question.agent = "coder"
           /\ c.caches <=> p = "anthropic"
           /\ p = "copilot" => c.key # ""

(* "A configured endpoint reaches the client": of OpenAI and Anthropic, the two whose
   libraries can be pointed elsewhere. *)
EndpointReaches ==
    IsClient /\ question.provider \in {"openai", "anthropic"} /\ question.base # "" =>
        TheClient.base = question.base
=============================================================================
