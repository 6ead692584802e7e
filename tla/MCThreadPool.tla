---------------------------- MODULE MCThreadPool ----------------------------
EXTENDS ThreadPool, TLC

CONSTANTS m1, m2, m3, m4, s1, s2

\* Two messages of one session, so that cleanup() removes some and not others.
MCSessionOf == m1 :> s1 @@ m2 :> s2 @@ m3 :> s1 @@ m4 :> s2
=============================================================================
