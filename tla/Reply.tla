------------------------------- MODULE Reply -------------------------------
(***************************************************************************)
(* cpp_redis::reply: a tagged value.  A C++ reply object always has a      *)
(* string, an integer and rows; the accessors throw unless the tag says    *)
(* that the member asked for is the current one, so that a reply is its    *)
(* tag and that member.                                                    *)
(***************************************************************************)
EXTENDS Integers, Sequences

\* The constructors, and the overloads of set() the builders use.  The
\* string types have the same codes as the types they are cast to.
null_reply == [type |-> "null"]
string_reply(value, reply_type) == [type |-> reply_type, strval |-> value]
integer_reply(value) == [type |-> "integer", intval |-> value]
array_reply(rows) == [type |-> "array", rows |-> rows]

is_array(r) == r.type = "array"
is_string(r) == r.type \in {"simple_string", "bulk_string", "error"}
is_integer(r) == r.type = "integer"

\* The accessors; each is only defined (does not throw) on its own types.
as_array(r) == r.rows
as_string(r) == r.strval
as_integer(r) == r.intval
=============================================================================
