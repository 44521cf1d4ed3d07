----------------------------- MODULE MCCommands -----------------------------
(***************************************************************************)
(* Instances of CommandStream: the calls of the runs.                      *)
(*                                                                         *)
(* A plain parameter is "x"; at most one of a call is "y", so that a       *)
(* parameter the function forgets, or pushes in the place of another, is   *)
(* noticed.  Optional parts are combined in every way, and their operands  *)
(* may look like a keyword.                                                *)
(***************************************************************************)
EXTENDS CommandStream, FiniteSets

CONSTANT StoreKeys   \* the texts of store_key and storedist_key

\* Vectors the functions are documented to take at least one element of.
Elements == {<<"x">>, <<"x", "y">>, <<"y", "x">>}
Pairs == {<<"x", "y">>, <<"x", "y", "y", "x">>}
Triples == {<<"x", "x", "y">>, <<"x", "x", "y", "y", "x", "x">>}

Operations ==
  LET op(k, o, f) == [operation_type |-> k, type |-> "x", offset |-> o,
                      value |-> "x", overflow |-> f]
      ops == {op("get", "x", ""), op("get", "y", ""), op("set", "x", ""),
               op("set", "x", "sat"), op("incrby", "x", "fail")}
  IN  {<<a>> : a \in ops} \cup {<<a, b>> : a, b \in ops}

\* Parameters with values of their own.
Special ==
  ("operations"       :> Operations) @@
  ("field_val..."     :> Pairs) @@
  ("key_vals..."      :> Pairs) @@
  ("long_lat_memb..." :> Triples) @@
  ("args..."          :> {<<>>, <<"x">>, <<"x", "y">>}) @@
  ("options..."       :> {<<>>, <<"NX">>, <<"NX", "CH">>}) @@
  ("score_members..." :> {<<"1", "x">>, <<"1", "x", "2", "y">>}) @@
  ("weights"          :> {<<>>, <<"2">>, <<"2", "3">>}) @@
  ("keys"             :> {<<>>, <<"x">>, <<"x", "COPY">>}) @@
  ("get_patterns"     :> {<<>>, <<"x">>, <<"ASC">>, <<"x", "y">>}) @@
  ("by_pattern"       :> {<<>>, <<"x">>, <<"LIMIT">>}) @@
  ("pattern"          :> {<<>>, <<"x">>, <<"COUNT">>}) @@
  ("store_key"        :> StoreKeys) @@
  ("storedist_key"    :> StoreKeys) @@
  ("unit"             :> {<<"m">>, <<"km">>}) @@
  ("method"           :> {<<>>, <<"sum">>, <<"max">>}) @@
  ("type"             :> {<<"normal">>, <<"pubsub">>}) @@
  ("skip"             :> {<<"true">>, <<"false">>}) @@
  ("asc_order"        :> {<<"true">>, <<"false">>})

\* Vectors a function needs at least one element of.
Vectors == {"elements...", "fields...", "key...", "keys...", "members...",
  "p_slots...", "scripts...", "sourcekeys...", "values...", "command_name..."}

\* The words of templates that are plain parameters.
Plain == {"addr", "id", "option", "quorum", "argument", "before_after", "bit", "channel", "cursor", "db",
  "dest_db", "destination", "destkey", "dst", "end", "epoch", "field", "host",
  "incr", "index", "ip", "key", "latitude", "longitude", "max", "member",
  "member_1", "member_2", "message", "milliseconds", "milliseconds_timestamp",
  "min", "mode", "msg", "name", "newkey", "node_id", "numslaves", "operation",
  "param", "password", "pivot", "port", "radius", "replace", "save", "script",
  "seconds", "section", "serialized_value", "sha1", "slot", "source", "src",
  "start", "stop", "subcommand", "timeout", "timestamp", "ttl", "val",
  "value", "count", "offset", "store_dest", "ex_sec", "px_milli"}

Parameters == Plain \cup Vectors \cup DOMAIN Special

Parts(t) == Range(t) \cap DOMAIN Options

Givens(t) == {Options[w].given : w \in Parts(t)}

\* Parameters of type bool.
Flags == {"with_coord", "with_dist", "with_hash", "ex", "px", "nx", "xx",
          "copy", "replace", "limit", "alpha", "withscores"}

ParametersOf(t) ==
  (Givens(t) \cup Range(t) \cup UNION {Range(Options[w].push) : w \in Parts(t)}
     \cup (IF "[GET get_patterns]" \in Range(t) THEN {"get_patterns"} ELSE {})
     \cup (IF "[operations]" \in Range(t) THEN {"operations"} ELSE {}))
    \cap (Parameters \cup Givens(t))

Values(p, t) ==
  CASE p = "pattern" /\ p \in Range(t) -> Special[p] \ {<<>>}
    [] p \in DOMAIN Special -> Special[p]
    [] p \in Vectors -> Elements
    [] p \in Givens(t) \cap Flags -> {<<>>, <<"x">>}
    [] p \in Givens(t) -> {<<>>, <<"x">>, <<"y">>}
    [] OTHER -> {<<"x">>, <<"y">>}

OneOdd(args, t) ==
  Cardinality({p \in DOMAIN args \ (DOMAIN Special \cup Vectors) :
                 args[p] = <<"y">>}) <= 1

\* The parameters get their values one after the other; a count of keys is
\* the number of keys.
ArgsOf(t) ==
  FoldSet(LAMBDA p, partial :
            {a \in {b @@ (p :> v) : b \in partial, v \in Values(p, t)} :
               OneOdd(a, t)},
          {IF "numkeys" \in Range(t)
           THEN ("keys..." :> k) @@ ("numkeys" :> <<ToString(Len(k))>>)
           ELSE <<>> : k \in Elements},
          ParametersOf(t) \ (IF "numkeys" \in Range(t) THEN {"keys..."}
                                                       ELSE {}))

CallsOf(f, commands) ==
  UNION {{[name |-> f, template |-> t, args |-> a] : a \in ArgsOf(t)} :
           t \in commands[f]}

MCCalls ==
  UNION ({CallsOf(f, CallbackCommands) : f \in DOMAIN CallbackCommands}
           \cup {CallsOf(f, SentinelCommands) : f \in DOMAIN SentinelCommands})

\* Later calls go through the futures.
MCPipelined == CallsOf("ping", FutureCommands)

Empty == {<<>>}
Some == {<<>>, <<"x">>, <<"y">>}
=============================================================================
