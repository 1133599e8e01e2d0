------------------------------- MODULE MCSftp -------------------------------
(***************************************************************************)
(* Instances of Sftp for TLC.                                              *)
(***************************************************************************)
EXTENDS Sftp

LocalFiles == [n \in {"l"} |-> File(<<"a1", "a2">>)]
RemoteFiles == [n \in {"r", "s", "x"} |->
                   CASE n = "r" -> File(<<"b1", "b2">>)
                     [] n = "s" -> None
                     [] n = "x" -> File(<<"c1">>)]
=============================================================================
