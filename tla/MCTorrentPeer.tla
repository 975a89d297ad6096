--------------------------- MODULE MCTorrentPeer ---------------------------
(***************************************************************************)
(* Instances of TorrentPeer for TLC.                                       *)
(***************************************************************************)
EXTENDS TorrentPeer

\* A hash without a zero byte, and hashes that differ early and late.
MCOurHash == <<5, 7>>
MCRemoteHashes == {<<5, 7>>, <<5, 8>>, <<6, 7>>}
=============================================================================
