---------------------------- MODULE MCPassThrough ----------------------------
(***************************************************************************)
(* A master that streams, sends fixed-length commands, chains commands     *)
(* under one CSB and enters both pass-through modes, while the core uses   *)
(* its flash.  The data byte reads differently backwards.                  *)
(***************************************************************************)
EXTENDS PassThrough

\* Write, read, both (streaming); write 1, read 2, both 7; no operation;
\* management, user and both pass-through bits.
MCCommands  == {128, 64, 192, 136, 80, 248, 0, 196, 194, 198}
MCAddresses == {18, 255}
MCDataBytes == {77}
MCRegAddrs  == {18, 0}
=============================================================================
