------------------------- MODULE MCDesktopMultiplex -------------------------
(***************************************************************************)
(* An instance of DesktopMultiplex: a screen of two tiles that may become  *)
(* one of one, and images of one tile, of both, and of a tile that the     *)
(* image does not fill.                                                    *)
(***************************************************************************)
EXTENDS DesktopMultiplex, TLC

MCSizes == {{1, 2}, {1}}
MCRects == {[tiles |-> {1}, area |-> 1], [tiles |-> {1, 2}, area |-> 2],
            [tiles |-> {2}, area |-> 0]}

\* Images that fill some of their tiles only, but a whole number of tiles by area.
MCBrokenRects == MCRects \cup {[tiles |-> {1, 2}, area |-> 1]}

\* An observation that no listed run checks: when the agent leaves, "disconnect
\* everyone" leaves every other viewer connected to a session that is disposed.
DisposedIsEmpty ==
    [][mux = "live" /\ mux' = "disposed" => Present \subseteq closed']_vars
=============================================================================
