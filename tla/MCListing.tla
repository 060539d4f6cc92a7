------------------------------ MODULE MCListing ------------------------------
(***************************************************************************)
(* Instances of UserListing for TLC.                                       *)
(***************************************************************************)
EXTENDS UserListing

CONSTANTS u1, u2, u3, u4

MCName == 1 .. 4

\* u2 and u3 were created at the same time; u4 has not registered yet.
MCSeed ==
    [u \in User |->
        CASE u = u1 -> [username |-> 2, createdAt |-> 0, role |-> "ADMIN"]
          [] u = u2 -> [username |-> 1, createdAt |-> 1, role |-> "USER"]
          [] u = u3 -> [username |-> 4, createdAt |-> 1, role |-> "USER"]
          [] u = u4 -> Absent]

\* Each column in each direction, all users or those of one role or of a
\* search, one or two to a page.
MCQueries ==
    [sortBy : {"username", "createdAt"}, sortOrder : {"asc", "desc"},
     role : {None, "USER"}, search : {Name, Name \ {1}}, limit : {1, 2}]

=============================================================================
