------------------------------- MODULE Pipes -------------------------------
(***************************************************************************)
(* What a tunnel promises: two pipes, one in each direction.  What comes    *)
(* out of a pipe is what went in, in order, nothing lost in between and     *)
(* nothing added; once the tunnel is closed nothing comes out any more.     *)
(***************************************************************************)
EXTENDS Naturals, Sequences

CONSTANT Ends

VARIABLES
    in,    \* what went into the pipe that begins at each end
    out,   \* what has come out of that pipe
    open

vars == <<in, out, open>>

Init ==
    /\ in = [e \in Ends |-> << >>]
    /\ out = [e \in Ends |-> << >>]
    /\ open = TRUE

\* Any bytes may be written, behind those that are there.
Write(e) ==
    /\ in[e] = SubSeq(in'[e], 1, Len(in[e]))
    /\ \A other \in Ends \ {e} : in'[other] = in[other]
    /\ UNCHANGED <<out, open>>

Carry(e) ==
    /\ open
    /\ \E n \in Len(out[e]) + 1 .. Len(in[e]) :
          out' = [out EXCEPT ![e] = SubSeq(in[e], 1, n)]
    /\ UNCHANGED <<in, open>>

Close ==
    /\ open' = FALSE
    /\ UNCHANGED <<in, out>>

Next == Close \/ \E e \in Ends : Write(e) \/ Carry(e)

Spec == Init /\ [][Next]_vars
=============================================================================
