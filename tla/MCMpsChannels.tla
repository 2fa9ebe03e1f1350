---------------------------- MODULE MCMpsChannels ----------------------------
(***************************************************************************)
(* One channel with traffic both ways, and channels with one byte.         *)
(***************************************************************************)
EXTENDS MpsChannels

CONSTANTS Bytes, Replies     \* of channel 1

McWritten == [c \in Channels |-> IF c = 1 THEN Bytes ELSE 1]
McReplied == [c \in Channels |-> IF c = 1 THEN Replies ELSE 0]
=============================================================================
