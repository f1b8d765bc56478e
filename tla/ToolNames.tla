------------------------------ MODULE ToolNames ------------------------------
(***************************************************************************)
(* How agent and relay prefix the name of a tool, with its server and then *)
(* with its device, and take the prefixes off again (src/agent.ts,         *)
(* src/connection-manager.ts, src/relay-mcp-server.ts).  A name is a       *)
(* sequence of characters, of which only the underscore matters: two       *)
(* joined names may be the same, and a name may look joined that is not.   *)
(***************************************************************************)
EXTENDS Naturals, Sequences

Underscore == "_"
Chars == STRING \cup {Underscore}

Prefix(key) == key \o <<Underscore, Underscore>>

\* `${server.name}__${tool.name}` and `${conn.name}__${tool.name}`
Joined(key, tool) == Prefix(key) \o tool

SeparatorAt(name, i) ==
  i \in 1..(Len(name) - 1) /\ name[i] = Underscore /\ name[i + 1] = Underscore

\* Mutant: lastIndexOf.
LastSeparator(name) ==
  CHOOSE i \in 1..Len(name) :
    SeparatorAt(name, i) /\ \A j \in 1..Len(name) : SeparatorAt(name, j) => j <= i

\* indexOf('__'); a name without one has no server.
Separator(name) ==
  CHOOSE i \in 1..Len(name) :
    SeparatorAt(name, i) /\ \A j \in 1..Len(name) : SeparatorAt(name, j) => i <= j

ServerOf(name) == SubSeq(name, 1, Separator(name) - 1)
ToolOf(name) == SubSeq(name, Separator(name) + 2, Len(name))

\* The keys that can be found again: no "__" in them, and no "_" at their end.
Findable(key) ==
  /\ Len(key) > 0 => key[Len(key)] # Underscore
  /\ \A i \in 1..Len(key) : ~SeparatorAt(key, i)

\* name.startsWith(`${key}__`), and name without that prefix, or as it is.
Prefixed(key, name) ==
  /\ Len(Prefix(key)) <= Len(name)
  /\ SubSeq(name, 1, Len(Prefix(key))) = Prefix(key)

Stripped(key, name) ==
  IF Prefixed(key, name) THEN SubSeq(name, Len(Prefix(key)) + 1, Len(name)) ELSE name

=============================================================================
