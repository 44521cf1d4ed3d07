-------------------------- MODULE RedisConnection --------------------------
(***************************************************************************)
(* network::redis_connection on top of a tcp_client_iface.                 *)
(*                                                                         *)
(* The module holds the state of one connection and the atomic steps its   *)
(* operations are made of.  A facade (client, subscriber, sentinel) owns   *)
(* the connection: its module EXTENDS this one and places the steps in its *)
(* own threads, because the interleavings that matter are those between    *)
(* the application's threads and the workers of the io_service.            *)
(*                                                                         *)
(* Data abstraction.  The text build_command produces for a command, and   *)
(* the reply the server encodes for it, are both represented by the        *)
(* command itself: a reply is "the answer to c".  The server answers       *)
(* commands in the order it reads them, so one sequence, wire, stands for  *)
(* everything written on the current connection whose reply has not been   *)
(* read yet.  How the reply builder cuts bytes into replies is abstracted: *)
(* a read brings some whole replies.                                       *)
(***************************************************************************)
EXTENDS Integers, Sequences

CONSTANTS
  Workers,    \* worker threads of the io_service
  None        \* "no thread", "no command"

VARIABLES
  connected,  \* m_client->is_connected()
  rd,         \* an async_read request is outstanding on the socket
  reader,     \* worker running the read or disconnection callback of the
              \*   current socket (the io_service runs one at a time), or None
  hset,       \* m_reply_callback and m_disconnection_handler have been set
  m_buffer,   \* commands stored by send and not committed yet
  wire,       \* commands written on the socket, reply not read yet
  avail       \* m_builder.m_available_replies

connVars == <<connected, rd, reader, hset, m_buffer, wire, avail>>

(***************************************************************************)
(* connect(): the socket is opened, the first read is requested, and only  *)
(* then are the two handlers of the owner stored.                          *)
(***************************************************************************)
TcpConnect ==
  /\ ~connected
  /\ connected' = TRUE
  /\ rd' = FALSE
  /\ reader' = None
  /\ wire' = <<>>
  /\ UNCHANGED <<hset, m_buffer, avail>>

AsyncRead ==
  /\ connected
  /\ rd' = TRUE
  /\ UNCHANGED <<connected, reader, hset, m_buffer, wire, avail>>

SetHandlers ==
  /\ hset' = TRUE
  /\ UNCHANGED <<connected, rd, reader, m_buffer, wire, avail>>

(***************************************************************************)
(* disconnect(): the socket is closed (which calls no handler), possibly   *)
(* waiting for the callback that is running on it, then the buffers are    *)
(* cleared.  m_builder.reset() drops a half-built reply and leaves the     *)
(* available ones, hence avail is not part of ClearBuffers.                *)
(***************************************************************************)
TcpDisconnect ==
  /\ connected' = FALSE
  /\ rd' = FALSE
  /\ wire' = <<>>
  /\ UNCHANGED <<reader, hset, m_buffer, avail>>

Removed == reader = None

ClearBuffers ==
  /\ m_buffer' = <<>>
  /\ UNCHANGED <<connected, rd, reader, hset, wire, avail>>

(***************************************************************************)
(* send() and commit().  The buffer is moved out before the write, so it   *)
(* is empty afterwards even when async_write throws.                       *)
(***************************************************************************)
BufferCommand(c) ==
  /\ m_buffer' = Append(m_buffer, c)
  /\ UNCHANGED <<connected, rd, reader, hset, wire, avail>>

WriteBuffer ==
  /\ connected
  /\ wire' = wire \o m_buffer
  /\ m_buffer' = <<>>
  /\ UNCHANGED <<connected, rd, reader, hset, avail>>

WriteFails ==
  /\ ~connected
  /\ m_buffer' = <<>>
  /\ UNCHANGED <<connected, rd, reader, hset, wire, avail>>

(***************************************************************************)
(* What a worker of the io_service can be called for.  The three share the *)
(* condition under which the socket is polled for reading.                 *)
(***************************************************************************)
Polled == connected /\ rd /\ reader = None

\* A read that brings the next n replies.
ReadReplies(w, n) ==
  /\ Polled
  /\ rd' = FALSE
  /\ reader' = w
  /\ avail' = avail \o SubSeq(wire, 1, n)
  /\ wire' = SubSeq(wire, n + 1, Len(wire))
  /\ UNCHANGED <<connected, hset, m_buffer>>

\* The peer closed the socket: whatever was written or not read is lost.
PeerDrop(w) ==
  /\ Polled
  /\ connected' = FALSE
  /\ rd' = FALSE
  /\ reader' = w
  /\ wire' = <<>>
  /\ UNCHANGED <<hset, m_buffer, avail>>

\* tcp_client_receive_handler: take the first available reply.
PopReply ==
  /\ avail # <<>>
  /\ avail' = Tail(avail)
  /\ UNCHANGED <<connected, rd, reader, hset, m_buffer, wire>>

\* The callback running on the socket returns.
ReleaseFd(w) == reader' = IF reader = w THEN None ELSE reader

\* Mutant: only the first packet is ever read.
NoNextRead(w) ==
  /\ avail = <<>>
  /\ ReleaseFd(w)
  /\ UNCHANGED <<connected, rd, hset, m_buffer, wire, avail>>

\* tcp_client_receive_handler: request the next read, or notice that the
\* client has been disconnected in the meantime.
NextRead(w) ==
  /\ avail = <<>>
  /\ rd' = (rd \/ connected)
  /\ ReleaseFd(w)
  /\ UNCHANGED <<connected, hset, m_buffer, wire, avail>>

\* The disconnection handler returns.
HandlerReturn(w) ==
  /\ ReleaseFd(w)
  /\ UNCHANGED <<connected, rd, hset, m_buffer, wire, avail>>

\* Everything an owner can do to the connection.
ConnNext(Commands) ==
  \/ TcpConnect \/ AsyncRead \/ SetHandlers
  \/ TcpDisconnect \/ ClearBuffers
  \/ \E c \in Commands : BufferCommand(c)
  \/ WriteBuffer \/ WriteFails
  \/ \E w \in Workers : \/ \E n \in 0 .. Len(wire) : ReadReplies(w, n)
                        \/ PeerDrop(w) \/ NextRead(w) \/ HandlerReturn(w)
  \/ PopReply

ConnInit(isConnected) ==
  /\ connected = isConnected
  /\ rd = isConnected
  /\ reader = None
  /\ hset = isConnected
  /\ m_buffer = <<>>
  /\ wire = <<>>
  /\ avail = <<>>

FlagsOK ==
  /\ connected \in BOOLEAN
  /\ rd \in BOOLEAN
  /\ hset \in BOOLEAN

QueuesOK(Commands) ==
  /\ reader \in Workers \cup {None}
  /\ m_buffer \in Seq(Commands)
  /\ wire \in Seq(Commands)
  /\ avail \in Seq(Commands)

ConnTypeOK(Commands) == FlagsOK /\ QueuesOK(Commands)
=============================================================================
