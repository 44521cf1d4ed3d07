------------------------------ MODULE Commands ------------------------------
(***************************************************************************)
(* The command functions of cpp_redis::client: what each of them asks      *)
(* send() to transmit.                                                     *)
(*                                                                         *)
(* Every function builds a vector of strings from its parameters, with no  *)
(* branch other than "this optional part is asked for".  A function is     *)
(* therefore a template: a sequence of words, where                        *)
(*   - "key" is the text of a parameter, "keys..." all the elements of a   *)
(*     vector (of its pairs or triples, one member after the other),       *)
(*   - "[...]" is an optional part (Options),                              *)
(*   - anything else is a keyword.                                         *)
(* Overloads that only differ in the type of a parameter share a template; *)
(* so do those that call the overload with every optional part, with the   *)
(* parts they lack not asked for.                                          *)
(*                                                                         *)
(* A call gives each parameter the sequence of its texts: one for a plain  *)
(* parameter, several for a vector, none for an optional part that is not  *)
(* asked for (an empty string, a count of 0, false, a server_default).     *)
(***************************************************************************)
EXTENDS Integers, SequencesExt, TLC

(***************************************************************************)
(* Enumerations                                                            *)
(***************************************************************************)
aggregate_method_to_string == [sum |-> "SUM", min |-> "MIN", max |-> "MAX"]

geo_unit_to_string == [m |-> "m", km |-> "km", ft |-> "ft", mi |-> "mi"]

bitfield_operation_type_to_string ==
  [get |-> "GET", set |-> "SET", incrby |-> "INCRBY"]

overflow_type_to_string == [wrap |-> "WRAP", sat |-> "SAT", fail |-> "FAIL"]

Conversions ==
  [skip      |-> [true |-> "yes", false |-> "no"],
   unit      |-> geo_unit_to_string,
   method    |-> aggregate_method_to_string,
   asc_order |-> [true |-> "ASC", false |-> "DESC"]]

(***************************************************************************)
(* Optional parts: "push" is appended when the parameter "given" is asked  *)
(* for.                                                                    *)
(***************************************************************************)
Part(parameter, words) == [given |-> parameter, push |-> words]

\* Mutant: the wrong operand is pushed.
ScanOptionsCopied ==
  ("[MATCH pattern]" :> Part("pattern", <<"MATCH", "pattern">>)) @@
  ("[COUNT count]"   :> Part("count", <<"COUNT", "pattern">>))

ScanOptions ==
  ("[MATCH pattern]" :> Part("pattern", <<"MATCH", "pattern">>)) @@
  ("[COUNT count]"   :> Part("count", <<"COUNT", "count">>))

\* Whether store_key is given, the key pushed is storedist_key.
GeoOptions ==
  ("[WITHCOORD]" :> Part("with_coord", <<"WITHCOORD">>)) @@
  ("[WITHDIST]"  :> Part("with_dist", <<"WITHDIST">>)) @@
  ("[WITHHASH]"  :> Part("with_hash", <<"WITHHASH">>)) @@
  ("[store_key]" :> Part("store_key", <<"STOREDIST", "storedist_key">>)) @@
  ("[STOREDIST storedist_key]" :>
     Part("storedist_key", <<"STOREDIST", "storedist_key">>))

SetOptions ==
  ("[EX ex_sec]"   :> Part("ex", <<"EX", "ex_sec">>)) @@
  ("[PX px_milli]" :> Part("px", <<"PX", "px_milli">>)) @@
  ("[NX]"          :> Part("nx", <<"NX">>)) @@
  ("[XX]"          :> Part("xx", <<"XX">>))

MigrateOptions ==
  ("[COPY]"      :> Part("copy", <<"COPY">>)) @@
  ("[REPLACE]"   :> Part("replace", <<"REPLACE">>)) @@
  ("[KEYS keys]" :> Part("keys", <<"KEYS", "keys">>))

SortOptions ==
  ("[BY by_pattern]"      :> Part("by_pattern", <<"BY", "by_pattern">>)) @@
  ("[LIMIT offset count]" :> Part("limit", <<"LIMIT", "offset", "count">>)) @@
  ("[ALPHA]"              :> Part("alpha", <<"ALPHA">>)) @@
  ("[STORE store_dest]"   :> Part("store_dest", <<"STORE", "store_dest">>))

SortedSetOptions ==
  ("[WITHSCORES]"        :> Part("withscores", <<"WITHSCORES">>)) @@
  ("[WEIGHTS weights]"   :> Part("weights", <<"WEIGHTS", "weights">>)) @@
  ("[AGGREGATE method]"  :> Part("method", <<"AGGREGATE", "method">>))

Options == ScanOptions @@ GeoOptions @@ SetOptions @@ MigrateOptions
             @@ SortOptions @@ SortedSetOptions

(***************************************************************************)
(* The text of a parameter, of a word of a template, of a call             *)
(***************************************************************************)

\* A parameter that is not asked for is an empty string where it is used.
Text(p, args) ==
  IF args[p] = <<>> THEN <<"">>
  ELSE IF p \in DOMAIN Conversions
  THEN [i \in DOMAIN args[p] |-> Conversions[p][args[p][i]]]
  ELSE args[p]

\* One iteration of the loop of client::bitfield.  The overflow is "" for
\* server_default.
BitfieldOperation(o) ==
  <<bitfield_operation_type_to_string[o.operation_type], o.type, o.offset>>
    \o (IF o.operation_type \in {"set", "incrby"} THEN <<o.value>> ELSE <<>>)
    \o (IF o.overflow # ""
        THEN <<"OVERFLOW", overflow_type_to_string[o.overflow]>> ELSE <<>>)

\* The loop of client::sort on get_patterns: empty patterns are skipped.
GetPatterns(patterns) ==
  FlattenSeq([i \in DOMAIN patterns |->
                IF patterns[i] = "" THEN <<>> ELSE <<"GET", patterns[i]>>])

Expand(word, args) ==
  CASE word = "[operations]" ->
         FlattenSeq([i \in DOMAIN args.operations |->
                       BitfieldOperation(args.operations[i])])
    [] word = "[GET get_patterns]" -> GetPatterns(args.get_patterns)
    [] word \in DOMAIN Options /\ args[Options[word].given] = <<>> -> <<>>
    [] word \in DOMAIN Options /\ args[Options[word].given] # <<>> ->
         FlattenSeq([i \in DOMAIN Options[word].push |->
                       LET w == Options[word].push[i] IN
                       IF w \in DOMAIN args THEN Text(w, args) ELSE <<w>>])
    [] word \in DOMAIN args -> IF args[word] = <<>> THEN <<>>
                               ELSE Text(word, args)
    [] OTHER -> <<word>>

\* What the function hands to send() for call c.
Request(c) ==
  FlattenSeq([i \in DOMAIN c.template |-> Expand(c.template[i], c.args)])

(***************************************************************************)
(* The functions, in the order of the source                               *)
(***************************************************************************)
AppendToBrpoplpush == [
  append |-> {<<"APPEND", "key", "value">>},
  auth |-> {<<"AUTH", "password">>}, bgrewriteaof |-> {<<"BGREWRITEAOF">>},
  bgsave |-> {<<"BGSAVE">>},
  bitcount |-> {<<"BITCOUNT", "key">>, <<"BITCOUNT", "key", "start", "end">>},
  bitfield |-> {<<"BITFIELD", "key", "[operations]">>},
  bitop |-> {<<"BITOP", "operation", "destkey", "keys...">>},
  bitpos |-> {<<"BITPOS", "key", "bit">>, <<"BITPOS", "key", "bit",
       "start">>, <<"BITPOS", "key", "bit", "start", "end">>},
  blpop |-> {<<"BLPOP", "keys...", "timeout">>},
  brpop |-> {<<"BRPOP", "keys...", "timeout">>},
  brpoplpush |-> {<<"BRPOPLPUSH", "src", "dst", "timeout">>}]

ClientCommands == [
  client_list |-> {<<"CLIENT", "LIST">>},
  client_getname |-> {<<"CLIENT", "GETNAME">>},
  client_pause |-> {<<"CLIENT", "PAUSE", "timeout">>},
  client_reply |-> {<<"CLIENT", "REPLY", "mode">>},
  client_setname |-> {<<"CLIENT", "SETNAME", "name">>}]

\* client_kill takes any of its filters, in any order, each at most once; the
\* address is a filter (ADDR) when there is another one.
KillFilters == {<<"TYPE", "type">>, <<"SKIPME", "skip">>, <<"ID", "id">>}

ClientKill == [
  client_kill |-> {<<"CLIENT", "KILL", "addr">>}
    \cup {<<"CLIENT", "KILL">> \o address \o FlattenSeq(filters) :
            address \in {<<>>, <<"ADDR", "addr">>},
            filters \in UNION {SetToSeqs(F) : F \in (SUBSET KillFilters) \ {{}}}}]

ClusterCommands == [
  cluster_addslots |-> {<<"CLUSTER", "ADDSLOTS", "p_slots...">>},
  cluster_count_failure_reports |-> {<<"CLUSTER", "COUNT-FAILURE-REPORTS",
       "node_id">>},
  cluster_countkeysinslot |-> {<<"CLUSTER", "COUNTKEYSINSLOT", "slot">>},
  cluster_delslots |-> {<<"CLUSTER", "DELSLOTS", "p_slots...">>},
  cluster_failover |-> {<<"CLUSTER", "FAILOVER">>, <<"CLUSTER", "FAILOVER",
       "mode">>}, cluster_forget |-> {<<"CLUSTER", "FORGET", "node_id">>},
  cluster_getkeysinslot |-> {<<"CLUSTER", "GETKEYSINSLOT", "slot", "count">>},
  cluster_info |-> {<<"CLUSTER", "INFO">>},
  cluster_keyslot |-> {<<"CLUSTER", "KEYSLOT", "key">>},
  cluster_meet |-> {<<"CLUSTER", "MEET", "ip", "port">>},
  cluster_nodes |-> {<<"CLUSTER", "NODES">>},
  cluster_replicate |-> {<<"CLUSTER", "REPLICATE", "node_id">>},
  cluster_reset |-> {<<"CLUSTER", "RESET">>, <<"CLUSTER", "RESET", "mode">>},
  cluster_saveconfig |-> {<<"CLUSTER", "SAVECONFIG">>},
  cluster_set_config_epoch |-> {<<"CLUSTER", "SET-CONFIG-EPOCH", "epoch">>},
  cluster_setslot |-> {<<"CLUSTER", "SETSLOT", "slot", "mode">>,
       <<"CLUSTER", "SETSLOT", "slot", "mode", "node_id">>},
  cluster_slaves |-> {<<"CLUSTER", "SLAVES", "node_id">>},
  cluster_slots |-> {<<"CLUSTER", "SLOTS">>}]

CommandToDump == [
  command |-> {<<"COMMAND">>}, command_count |-> {<<"COMMAND", "COUNT">>},
  command_getkeys |-> {<<"COMMAND", "GETKEYS">>},
  command_info |-> {<<"COMMAND", "COUNT", "command_name...">>},
  config_get |-> {<<"CONFIG", "GET", "param">>},
  config_rewrite |-> {<<"CONFIG", "REWRITE">>},
  config_set |-> {<<"CONFIG", "SET", "param", "val">>},
  config_resetstat |-> {<<"CONFIG", "RESETSTAT">>}, dbsize |-> {<<"DBSIZE">>},
  debug_object |-> {<<"DEBUG", "OBJECT", "key">>},
  debug_segfault |-> {<<"DEBUG", "SEGFAULT">>}, decr |-> {<<"DECR", "key">>},
  decrby |-> {<<"DECRBY", "key", "val">>}, del |-> {<<"DEL", "key...">>},
  discard |-> {<<"DISCARD">>}, dump |-> {<<"DUMP", "key">>}]

EchoToFlushdb == [
  echo |-> {<<"ECHO", "msg">>},
  eval |-> {<<"EVAL", "script", "numkeys", "keys...", "args...">>},
  evalsha |-> {<<"EVALSHA", "sha1", "numkeys", "keys...", "args...">>},
  exec |-> {<<"EXEC">>}, exists |-> {<<"EXISTS", "keys...">>},
  expire |-> {<<"EXPIRE", "key", "seconds">>},
  expireat |-> {<<"EXPIREAT", "key", "timestamp">>},
  flushall |-> {<<"FLUSHALL">>}, flushdb |-> {<<"FLUSHDB">>}]

GeoCommands == [
  geoadd |-> {<<"GEOADD", "key", "long_lat_memb...">>},
  geohash |-> {<<"GEOHASH", "key", "members...">>},
  geopos |-> {<<"GEOPOS", "key", "members...">>},
  geodist |-> {<<"GEODIST", "key", "member_1", "member_2">>, <<"GEODIST",
       "key", "member_1", "member_2", "unit">>}]

Georadius == [
  georadius |-> {<<"GEORADIUS", "key", "longitude", "latitude", "radius",
       "unit", "[WITHCOORD]", "[WITHDIST]", "[WITHHASH]", "asc_order",
       "[COUNT count]", "[store_key]", "[STOREDIST storedist_key]">>},
  georadiusbymember |-> {<<"GEORADIUSBYMEMBER", "key", "member", "radius",
       "unit", "[WITHCOORD]", "[WITHDIST]", "[WITHHASH]", "asc_order",
       "[COUNT count]", "[store_key]", "[STOREDIST storedist_key]">>}]

GetToHmset == [
  get |-> {<<"GET", "key">>}, getbit |-> {<<"GETBIT", "key", "offset">>},
  getrange |-> {<<"GETRANGE", "key", "start", "end">>},
  getset |-> {<<"GETSET", "key", "val">>},
  hdel |-> {<<"HDEL", "key", "fields...">>},
  hexists |-> {<<"HEXISTS", "key", "field">>},
  hget |-> {<<"HGET", "key", "field">>}, hgetall |-> {<<"HGETALL", "key">>},
  hincrby |-> {<<"HINCRBY", "key", "field", "incr">>},
  hincrbyfloat |-> {<<"HINCRBYFLOAT", "key", "field", "incr">>},
  hkeys |-> {<<"HKEYS", "key">>}, hlen |-> {<<"HLEN", "key">>},
  hmget |-> {<<"HMGET", "key", "fields...">>},
  hmset |-> {<<"HMSET", "key", "field_val...">>}]

HscanToKeys == [
  hscan |-> {<<"HSCAN", "key", "cursor", "[MATCH pattern]", "[COUNT count]">>},
  hset |-> {<<"HSET", "key", "field", "value">>},
  hsetnx |-> {<<"HSETNX", "key", "field", "value">>},
  hstrlen |-> {<<"HSTRLEN", "key", "field">>}, hvals |-> {<<"HVALS", "key">>},
  incr |-> {<<"INCR", "key">>}, incrby |-> {<<"INCRBY", "key", "incr">>},
  incrbyfloat |-> {<<"INCRBYFLOAT", "key", "incr">>},
  info |-> {<<"INFO">>, <<"INFO", "section">>},
  keys |-> {<<"KEYS", "pattern">>}]

LastsaveToMget == [
  lastsave |-> {<<"LASTSAVE">>}, lindex |-> {<<"LINDEX", "key", "index">>},
  linsert |-> {<<"LINSERT", "key", "before_after", "pivot", "value">>},
  llen |-> {<<"LLEN", "key">>}, lpop |-> {<<"LPOP", "key">>},
  lpush |-> {<<"LPUSH", "key", "values...">>},
  lpushx |-> {<<"LPUSHX", "key", "value">>},
  lrange |-> {<<"LRANGE", "key", "start", "stop">>},
  lrem |-> {<<"LREM", "key", "count", "value">>},
  lset |-> {<<"LSET", "key", "index", "value">>},
  ltrim |-> {<<"LTRIM", "key", "start", "stop">>},
  mget |-> {<<"MGET", "keys...">>}]

MigrateToObject == [
  migrate |-> {<<"MIGRATE", "host", "port", "key", "dest_db", "timeout",
       "[COPY]", "[REPLACE]", "[KEYS keys]">>}, monitor |-> {<<"MONITOR">>},
  move |-> {<<"MOVE", "key", "db">>}, mset |-> {<<"MSET", "key_vals...">>},
  msetnx |-> {<<"MSETNX", "key_vals...">>}, multi |-> {<<"MULTI">>},
  object |-> {<<"OBJECT", "subcommand", "args...">>}]

PersistToPubsub == [
  persist |-> {<<"PERSIST", "key">>},
  pexpire |-> {<<"PEXPIRE", "key", "milliseconds">>},
  pexpireat |-> {<<"PEXPIREAT", "key", "milliseconds_timestamp">>},
  pfadd |-> {<<"PFADD", "key", "elements...">>},
  pfcount |-> {<<"PFCOUNT", "keys...">>},
  pfmerge |-> {<<"PFMERGE", "destkey", "sourcekeys...">>},
  ping |-> {<<"PING">>, <<"PING", "message">>},
  psetex |-> {<<"PSETEX", "key", "milliseconds", "val">>},
  publish |-> {<<"PUBLISH", "channel", "message">>},
  pubsub |-> {<<"PUBSUB", "subcommand", "args...">>},
  pttl |-> {<<"PTTL", "key">>}]

QuitToSave == [
  quit |-> {<<"QUIT">>}, randomkey |-> {<<"RANDOMKEY">>},
  readonly |-> {<<"READONLY">>}, readwrite |-> {<<"READWRITE">>},
  rename |-> {<<"RENAME", "key", "newkey">>},
  renamenx |-> {<<"RENAMENX", "key", "newkey">>},
  restore |-> {<<"RESTORE", "key", "ttl", "serialized_value">>, <<"RESTORE",
       "key", "ttl", "serialized_value", "replace">>}, role |-> {<<"ROLE">>},
  rpop |-> {<<"RPOP", "key">>},
  rpoplpush |-> {<<"RPOPLPUSH", "source", "destination">>},
  rpush |-> {<<"RPUSH", "key", "values...">>},
  rpushx |-> {<<"RPUSHX", "key", "value">>},
  sadd |-> {<<"SADD", "key", "members...">>}, save |-> {<<"SAVE">>}]

ScanToSet == [
  scan |-> {<<"SCAN", "cursor", "[MATCH pattern]", "[COUNT count]">>},
  scard |-> {<<"SCARD", "key">>},
  script_debug |-> {<<"SCRIPT", "DEBUG", "mode">>},
  script_exists |-> {<<"SCRIPT", "EXISTS", "scripts...">>},
  script_flush |-> {<<"SCRIPT", "FLUSH">>},
  script_kill |-> {<<"SCRIPT", "KILL">>},
  script_load |-> {<<"SCRIPT", "LOAD", "script">>},
  sdiff |-> {<<"SDIFF", "keys...">>},
  sdiffstore |-> {<<"SDIFFSTORE", "destination", "keys...">>},
  select |-> {<<"SELECT", "index">>}, set |-> {<<"SET", "key", "value">>}]

SetAdvancedToSmove == [
  set_advanced |-> {<<"SET", "key", "value", "[EX ex_sec]", "[PX px_milli]",
       "[NX]", "[XX]">>},
  setbit_ |-> {<<"SETBIT", "key", "offset", "value">>},
  setex |-> {<<"SETEX", "key", "seconds", "value">>},
  setnx |-> {<<"SETNX", "key", "value">>},
  setrange |-> {<<"SETRANGE", "key", "offset", "value">>},
  shutdown |-> {<<"SHUTDOWN">>, <<"SHUTDOWN", "save">>},
  sinter |-> {<<"SINTER", "keys...">>},
  sinterstore |-> {<<"SINTERSTORE", "destination", "keys...">>},
  sismember |-> {<<"SISMEMBER", "key", "member">>},
  slaveof |-> {<<"SLAVEOF", "host", "port">>},
  slowlog |-> {<<"SLOWLOG", "subcommand">>, <<"SLOWLOG", "subcommand",
       "argument">>}, smembers |-> {<<"SMEMBERS", "key">>},
  smove |-> {<<"SMOVE", "source", "destination", "member">>}]

SortCommand == [
  sort |-> {<<"SORT", "key">>, <<"SORT", "key", "[BY by_pattern]",
       "[LIMIT offset count]", "[GET get_patterns]", "asc_order", "[ALPHA]",
       "[STORE store_dest]">>}]

SpopToWatch == [
  spop |-> {<<"SPOP", "key">>, <<"SPOP", "key", "count">>},
  srandmember |-> {<<"SRANDMEMBER", "key">>, <<"SRANDMEMBER", "key",
       "count">>}, srem |-> {<<"SREM", "key", "members...">>},
  sscan |-> {<<"SSCAN", "key", "cursor", "[MATCH pattern]", "[COUNT count]">>},
  strlen |-> {<<"STRLEN", "key">>}, sunion |-> {<<"SUNION", "keys...">>},
  sunionstore |-> {<<"SUNIONSTORE", "destination", "keys...">>},
  sync |-> {<<"SYNC">>}, time |-> {<<"TIME">>}, ttl |-> {<<"TTL", "key">>},
  type |-> {<<"TYPE", "key">>}, unwatch |-> {<<"UNWATCH">>},
  wait |-> {<<"WAIT", "numslaves", "timeout">>},
  watch |-> {<<"WATCH", "keys...">>}]

ZaddToZlexcount == [
  zadd |-> {<<"ZADD", "key", "options...", "score_members...">>},
  zcard |-> {<<"ZCARD", "key">>},
  zcount |-> {<<"ZCOUNT", "key", "min", "max">>},
  zincrby |-> {<<"ZINCRBY", "key", "incr", "member">>},
  zinterstore |-> {<<"ZINTERSTORE", "destination", "numkeys", "keys...",
       "[WEIGHTS weights]", "[AGGREGATE method]">>},
  zlexcount |-> {<<"ZLEXCOUNT", "key", "min", "max">>}]

ZrangeCommand == [
  zrange |-> {<<"ZRANGE", "key", "start", "stop", "[WITHSCORES]">>}]

Zrangebylex == [
  zrangebylex |-> {<<"ZRANGEBYLEX", "key", "min", "max", "[WITHSCORES]",
       "[LIMIT offset count]">>}]

Zrangebyscore == [
  zrangebyscore |-> {<<"ZRANGEBYSCORE", "key", "min", "max", "[WITHSCORES]",
       "[LIMIT offset count]">>}]

ZrankToZrevrange == [
  zrank |-> {<<"ZRANK", "key", "member">>},
  zrem |-> {<<"ZREM", "key", "members...">>},
  zremrangebylex |-> {<<"ZREMRANGEBYLEX", "key", "min", "max">>},
  zremrangebyrank |-> {<<"ZREMRANGEBYRANK", "key", "start", "stop">>},
  zremrangebyscore |-> {<<"ZREMRANGEBYSCORE", "key", "min", "max">>},
  zrevrange |-> {<<"ZREVRANGE", "key", "start", "stop", "[WITHSCORES]">>}]

Zrevrangebylex == [
  zrevrangebylex |-> {<<"ZREVRANGEBYLEX", "key", "max", "min",
       "[WITHSCORES]", "[LIMIT offset count]">>}]

Zrevrangebyscore == [
  zrevrangebyscore |-> {<<"ZREVRANGEBYSCORE", "key", "max", "min",
       "[WITHSCORES]", "[LIMIT offset count]">>}]

ZrevrankToZunionstore == [
  zrevrank |-> {<<"ZREVRANK", "key", "member">>},
  zscan |-> {<<"ZSCAN", "key", "cursor", "[MATCH pattern]", "[COUNT count]">>},
  zscore |-> {<<"ZSCORE", "key", "member">>},
  zunionstore |-> {<<"ZUNIONSTORE", "destination", "numkeys", "keys...",
       "[WEIGHTS weights]", "[AGGREGATE method]">>}]

CallbackCommands ==
  AppendToBrpoplpush @@ ClientCommands @@ ClientKill @@ ClusterCommands @@
  CommandToDump @@ EchoToFlushdb @@ GeoCommands @@ Georadius @@
  GetToHmset @@ HscanToKeys @@ LastsaveToMget @@ MigrateToObject @@
  PersistToPubsub @@ QuitToSave @@ ScanToSet @@ SetAdvancedToSmove @@
  SortCommand @@ SpopToWatch @@ ZaddToZlexcount @@ ZrangeCommand @@
  Zrangebylex @@ Zrangebyscore @@ ZrankToZrevrange @@ Zrevrangebylex @@
  Zrevrangebyscore @@ ZrevrankToZunionstore

(***************************************************************************)
(* The functions of cpp_redis::sentinel                                    *)
(***************************************************************************)
SentinelCommands == [
  ping |-> {<<"PING">>}, masters |-> {<<"SENTINEL", "MASTERS">>},
  master |-> {<<"SENTINEL", "MASTER", "name">>},
  slaves |-> {<<"SENTINEL", "SLAVES", "name">>},
  sentinels |-> {<<"SENTINEL", "SENTINELS", "name">>},
  ckquorum |-> {<<"SENTINEL", "CKQUORUM", "name">>},
  failover |-> {<<"SENTINEL", "FAILOVER", "name">>},
  reset |-> {<<"SENTINEL", "RESET", "pattern">>},
  flushconfig |-> {<<"SENTINEL", "FLUSHCONFIG">>},
  monitor |-> {<<"SENTINEL", "MONITOR", "name", "ip", "port", "quorum">>},
  remove |-> {<<"SENTINEL", "REMOVE", "name">>},
  set |-> {<<"SENTINEL", "SET", "name", "option", "value">>},
  get_master_addr_by_name |->
    {<<"SENTINEL", "get-master-addr-by-name", "name">>}]

(***************************************************************************)
(* The overloads that return a future call the callback overload with the  *)
(* same parameters (exec_cmd): same templates, except that three overloads *)
(* have no counterpart.                                                    *)
(***************************************************************************)
NoFuture == {<<"CLUSTER", "RESET">>, <<"INFO">>,
             <<"GEODIST", "key", "member_1", "member_2">>}

FutureCommands ==
  [f \in DOMAIN CallbackCommands |-> CallbackCommands[f] \ NoFuture]
=============================================================================
