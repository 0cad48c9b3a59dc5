------------------------------ MODULE UserFeed ------------------------------
(* What the browser promises about the streams of a session: a user who logs *)
(* in gets all feeds at once, a user who logs out loses them all at once, and *)
(* nobody logs in while feeds of the session before are attached.            *)
CONSTANTS User,       \* the users of this browser
          None,       \* nobody
          Feed        \* the streams of a session

VARIABLES
  user,       \* who is logged in
  feeds       \* the feeds attached

vars == <<user, feeds>>

Init == user \in User \union {None} /\ feeds = {}

LogIn(u) == /\ user = None
            /\ feeds = {}
            /\ user' = u
            /\ UNCHANGED feeds

LogOut == /\ user # None
          /\ user' = None
          /\ UNCHANGED feeds

Attach == /\ user # None
          /\ feeds = {}
          /\ feeds' = Feed
          /\ UNCHANGED user

Detach == /\ user = None
          /\ feeds = Feed
          /\ feeds' = {}
          /\ UNCHANGED user

Next == (\E u \in User : LogIn(u)) \/ LogOut \/ Attach \/ Detach

Spec == Init /\ [][Next]_vars

FairSpec == Spec /\ WF_vars(Attach) /\ WF_vars(Detach)
=============================================================================
