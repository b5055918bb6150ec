------------------------------ MODULE Goodbye ------------------------------
(***************************************************************************)
(* This node's side of peer disconnection in the sync service             *)
(* (src/unnamed/part_000: disconnectBadPeer, sendGoodbye,                 *)
(* sendGoodByeAndDisconnect, sendGoodByeMessage). The node says goodbye   *)
(* to a peer the bad-responses scorer marks bad, or on the connection     *)
(* handler's request with GENERIC_ERROR, and disconnects it whether or    *)
(* not the message could be sent. Disconnecting closes every stream with  *)
(* the peer: the streams are reset under the handlers still serving them. *)
(***************************************************************************)
EXTENDS Integers

CONSTANTS
  Peers, Streams, PeerOf,
  GenericError,       \* types.GoodbyeCodeGenericError
  BadScore,           \* the code ErrToGoodbyeCode gives a bad-responses peer
  BAD_THRESHOLD       \* BadResponsesScorer threshold: IsBad from here on

VARIABLES
  connected,   \* Peers -> the peer has a connection to this node
  told,        \* Peers -> code of the goodbye this node sent, or "none"
  reset,       \* Streams -> the stream was reset by a disconnect
  penalties    \* Peers -> BadResponsesScorer increments (read only here)

\* BadResponsesScorer.IsBad: the peer has reached the threshold.
IsBad(p) == penalties[p] >= BAD_THRESHOLD

\* p2p.Disconnect: the connection and every stream with the peer close.
Disconnect(p) ==
  /\ connected' = [connected EXCEPT ![p] = FALSE]
  /\ reset' = [s \in Streams |-> reset[s] \/ PeerOf[s] = p]

\* sendGoodByeAndDisconnect: sendGoodByeMessage opens a stream to the
\* peer and writes the code, or fails (the stream cannot be opened or the
\* timeout passes), which is only logged; the disconnect follows either
\* way.  told records the goodbyes the peer was actually sent.
SendGoodByeAndDisconnect(code, p) ==
  /\ \E sent \in BOOLEAN : told' = IF sent THEN [told EXCEPT ![p] = code] ELSE told
  /\ Disconnect(p)

-----------------------------------------------------------------------------
(* disconnectBadPeer, run for a connected peer: nothing unless the peer is *)
(* bad, else a goodbye with the scorer's code and the disconnect.          *)
DisconnectBadPeer(p) ==
  /\ connected[p]
  /\ IsBad(p)
  /\ SendGoodByeAndDisconnect(BadScore, p)
  /\ UNCHANGED penalties

(* sendGoodbye: the connection handler rejects a peer with GENERIC_ERROR, *)
(* at any moment of its streams.                                           *)
SendGoodbye(p) ==
  /\ connected[p]
  /\ SendGoodByeAndDisconnect(GenericError, p)
  /\ UNCHANGED penalties
=============================================================================
