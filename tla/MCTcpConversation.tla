-------------------------- MODULE MCTcpConversation --------------------------
(* Small instances of TcpConversation for TLC. *)
EXTENDS TcpConversation

CONSTANTS MaxMessages,      \* longest script
          Sizes             \* payload sizes of its messages

MCScripts == UNION {[1..n -> [from : Dir, size : Sizes]] : n \in 0..MaxMessages}

\* The five states the builder knows and one it does not.
MCConnStates == Supported \cup {"S1"}

MCTextureNames == DOMAIN TEXTURES
=============================================================================
