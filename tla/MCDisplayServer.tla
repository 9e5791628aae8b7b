-------------------------- MODULE MCDisplayServer --------------------------
(* Small instances of DisplayServer: which library functions each client     *)
(* calls.                                                                    *)
EXTENDS DisplayServer

CONSTANTS c1, c2, c3

\* Between them the clients use one function of each kind of the library: the others
\* differ from one of these in the number of a request that the server treats alike, and
\* draw_text in trying more than once.  The third client only connects and closes: its connect() may take the
\* place of one of them in the backlog.
Kinds == [c \in Clients |->
    IF c = c1 THEN {"draw_text", "set_text", "create_window"}
    ELSE IF c = c2
    THEN {"get_text", "clone_and_execute2", "refresh_retangle", "get_next_event", "change_window_position"}
    ELSE {}]

\* Each client creates a window.
Windows == [c \in Clients |-> {"create_window"}]
=============================================================================
