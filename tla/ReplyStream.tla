----------------------------- MODULE ReplyStream -----------------------------
(***************************************************************************)
(* The reading side of a redis_connection: packets come from the socket,   *)
(* tcp_client_receive_handler feeds them to the reply builder and hands    *)
(* the replies over to its owner.                                          *)
(*                                                                         *)
(* What the server writes on a connection is a script: the bytes, the      *)
(* replies they encode, and for each reply the offset of its last byte.    *)
(* After the replies there may be bytes that no reply begins with; the     *)
(* offset of the byte that makes them invalid is then "bad".               *)
(***************************************************************************)
EXTENDS ReplyBuilder, FiniteSets

CONSTANTS
  Scripts,         \* what the server may write on a connection
  ReuseAfterLoss,  \* the object is used again although replies that were
                   \*   built before operator<< threw are still available
  MaxConnections   \* bound: connections opened

VARIABLES
  script,      \* what the server writes on this connection
  received,    \* number of bytes of it that have been read
  delivered,   \* replies given to m_reply_callback on this connection
  connections  \* number of connections opened so far

streamVars == <<script, received, delivered, connections>>
vars == <<builderVars, streamVars>>

\* A packet: any number of the bytes that have not been read yet.
ReadPacket ==
  /\ ~busy /\ ~thrown /\ m_available_replies = <<>>
  /\ \E n \in received + 1 .. Len(script.bytes) :
       /\ Feed(SubSeq(script.bytes, received + 1, n))
       /\ received' = n
  /\ UNCHANGED <<script, delivered, connections>>

\* operator<< goes on.
Build ==
  /\ BuildStep
  /\ UNCHANGED streamVars

\* The loop on reply_available().  It is not reached when operator<< throws.
Deliver ==
  /\ ~thrown
  /\ pop_front
  /\ delivered' = Append(delivered, Head(m_available_replies))
  /\ UNCHANGED <<script, received, connections>>

\* The connection is lost, or closed, between two packets or after the
\* exception, then opened again.
Reconnect ==
  /\ connections < MaxConnections
  /\ m_available_replies = <<>> \/ (thrown /\ ReuseAfterLoss)
  /\ reset
  /\ script' \in Scripts
  /\ received' = 0
  /\ delivered' = <<>>
  /\ connections' = connections + 1

Init ==
  /\ BuilderInit
  /\ script \in Scripts
  /\ received = 0
  /\ delivered = <<>>
  /\ connections = 1

Next == ReadPacket \/ Build \/ Deliver \/ Reconnect

Spec == Init /\ [][Next]_vars

FairSpec == Spec /\ WF_vars(Build \/ Deliver)

(***************************************************************************)
(* Properties                                                              *)
(***************************************************************************)

\* The chain of builders is made of arrays in progress, down to the builder
\* of the element being read.
TypeOK ==
  /\ busy \in BOOLEAN
  /\ thrown \in BOOLEAN
  /\ received \in 0 .. Len(script.bytes)
  /\ \A i \in 1 .. Len(m_builder) :
       /\ m_builder[i].mark \in Marks
       /\ i < Len(m_builder) => /\ m_builder[i].mark = "*"
                                /\ m_builder[i].sized
                                /\ Len(m_builder[i].rows) < m_builder[i].size

\* Replies whose last byte has been received.
Arrived == Cardinality({i \in 1 .. Len(script.ends) : script.ends[i] <= received})

Built == delivered \o m_available_replies

\* Wherever the packets are cut, and whatever was left unfinished on the
\* connection before, the owner is given the replies the server wrote, in
\* order and unchanged: nested arrays, null replies and empty arrays, bulk
\* strings that contain end sequences, and the integers at both ends of the
\* range of int64_t.
SameReplies == (~thrown /\ received < script.bad) => IsPrefix(Built, script.replies)

\* A reply is given to the owner as soon as its last byte has arrived: the
\* builders never wait for a byte of the reply that follows.
Prompt == (~busy /\ ~thrown) => Len(Built) = Arrived

\* operator<< throws on invalid bytes, and never on what a server sends.
ThrowsOnlyOnInvalid == thrown => received >= script.bad

\* Invalid bytes are noticed as soon as operator<< returns.
NoticesInvalid == (~busy /\ received >= script.bad) => thrown

\* operator<< returns: no packet makes its loop run for ever.
Returns == busy ~> ~busy

\* reset() brings the builder back to its initial state, so that a
\* connection only delivers what was received on it.
FreshAfterReset == [][connections' # connections => m_available_replies' = <<>>]_vars
=============================================================================
