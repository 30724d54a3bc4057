----------------------------- MODULE MCHallLoop -----------------------------
(* One session with channels of one place, for TLC.                        *)
EXTENDS HallLoop

\* What happens around the session, a few things at a time.
Around ==
    {{"gone", "push"}, {"gone", "kick", "session_push"}, {"gone", "actor", "tick"},
     {"stop", "actor", "yield"}}
=============================================================================
