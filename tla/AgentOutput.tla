----------------------------- MODULE AgentOutput -----------------------------
(***************************************************************************)
(* From a line of agent output to a policy match: ParseEvent of the two    *)
(* adapters, extractToolUse and checkPolicies of the coordinator, Matches  *)
(* of internal/policy.                                                     *)
(*                                                                         *)
(* A line is [type, tool, state, fits]: its JSON "type" ("" if it has none *)
(* or is no JSON), the tool of its part ("" if none), the part's state,    *)
(* field by field, and the Go types that json.Unmarshal can decode it      *)
(* into: a field of another type than the struct's is an error.  A policy  *)
(* is [action, tool, inputs]; globs and regexes are the sets of what they  *)
(* match (encoding/json, path/filepath and regexp are external).           *)
(***************************************************************************)
EXTENDS Naturals, Sequences

CONSTANTS
  Policies,   \* the configured policies, in order
  Glob        \* Glob[pattern]: the tools that filepath.Match accepts

NoCall == [tool |-> "", inputs |-> <<>>]

Text == [type |-> "text", tool |-> "", state |-> <<>>, fits |-> {"raw"}]

Only(f, fields) == [x \in DOMAIN f \intersect fields |-> f[x]]

(* OpenCodeState has one field, which is left out when it is empty. *)
Kept(state) == Only(state, {x \in {"output"} : x \in DOMAIN state /\ state[x] # ""})

(* The event of a line, as JSON: opencode decodes into OpenCodeEvent, ... *)
parseOpenCode(line) ==
  IF line.type = "" \/ "OpenCodeEvent" \notin line.fits THEN Text
  ELSE [type |-> line.type, tool |-> line.tool, state |-> Kept(line.state), fits |-> {"raw"}]

(* ... exec keeps a tool_use line whole. *)
parseExec(line) == IF line.type = "tool_use" THEN line ELSE Text

ParseEvent(adapter, line) ==
  IF adapter = "opencode" THEN parseOpenCode(line) ELSE parseExec(line)

(* The event is decoded again, into a struct of its own ("raw" here). *)
extractToolUse(event) ==
  IF "raw" \in event.fits /\ event.type = "tool_use" /\ event.tool # ""
    THEN [tool |-> event.tool, inputs |-> event.state]
    ELSE NoCall

toolGlob(pattern, tool) == pattern \in {"", "*"} \/ tool \in Glob[pattern]

Matches(policy, call) ==
  /\ toolGlob(policy.tool, call.tool)
  /\ \A field \in DOMAIN policy.inputs :
       field \in DOMAIN call.inputs /\ call.inputs[field] \in policy.inputs[field]

(* Slip: all tool calls of the output share the first one's verdict. *)
checkFirstCall(adapter, output) ==
  {ij \in (DOMAIN output) \X (DOMAIN Policies) :
     LET call == extractToolUse(ParseEvent(adapter, output[ij[1]]))
         policy == Policies[ij[2]]
     IN  ij[1] = 1 /\ call.tool # "" /\ policy.action = "require_approval" /\ Matches(policy, call)}

(* The matches found in an output: pairs of a line and a policy. *)
checkPolicies(adapter, output) ==
  {ij \in (DOMAIN output) \X (DOMAIN Policies) :
     LET call == extractToolUse(ParseEvent(adapter, output[ij[1]]))
         policy == Policies[ij[2]]
     IN  call.tool # "" /\ policy.action = "require_approval" /\ Matches(policy, call)}

(***************************************************************************)
(* What the package comment of internal/policy says of a tool_use line: it *)
(* names a tool the policy is about and its inputs are as the policy asks. *)
(***************************************************************************)
Restricted(line, policy) ==
  /\ line.type = "tool_use" /\ line.tool # ""
  /\ policy.action = "require_approval"
  /\ policy.tool \in {"", "*"} \/ line.tool \in Glob[policy.tool]
  /\ DOMAIN policy.inputs \subseteq DOMAIN line.state
  /\ \A field \in DOMAIN policy.inputs : line.state[field] \in policy.inputs[field]

(* The line decodes, and the adapter keeps the inputs the policy looks at. *)
Sees(adapter, line, policy) ==
  IF adapter = "opencode"
    THEN "OpenCodeEvent" \in line.fits /\ DOMAIN policy.inputs \subseteq DOMAIN Kept(line.state)
    ELSE "raw" \in line.fits
=============================================================================
