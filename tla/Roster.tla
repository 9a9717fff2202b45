------------------------------- MODULE Roster -------------------------------
(***************************************************************************)
(* What channel tracking promises (include/libsrsirc/irc_track.h): a roster *)
(* per channel we are in, and the set of users we see, which are exactly    *)
(* the users on some roster.  Nothing is said here of objects, reference    *)
(* counts or maps; irc_num_members, irc_member and irc_user can only tell   *)
(* the rosters and the users apart.                                         *)
(***************************************************************************)
EXTENDS Functions

CONSTANTS User, Channel

VARIABLES roster, known

vars == <<roster, known>>

Seen(r) == UNION Range(r)

Init == roster = [c \in {} |-> {}] /\ known = {}

(* Every step says what becomes of the rosters; the users follow.           *)
Becomes(r) == roster' = r /\ known' = Seen(r)

(* We enter a channel, and leave it.                                        *)
Open(c)  == c \notin DOMAIN roster /\ Becomes([d \in DOMAIN roster \cup {c} |->
                                                 IF d = c THEN {} ELSE roster[d]])
Close(c) == Becomes(Restrict(roster, DOMAIN roster \ {c}))

(* A member comes, and goes; a new list of names starts the roster anew.    *)
Enter(c, u) == Becomes([roster EXCEPT ![c] = @ \cup {u}])
Leave(c, u) == Becomes([roster EXCEPT ![c] = @ \ {u}])
Forget(c)   == Becomes([roster EXCEPT ![c] = {}])

(* A user goes, or changes names, on all the rosters at once.               *)
Quit(u)      == Becomes([c \in DOMAIN roster |-> roster[c] \ {u}])
Rename(u, v) ==
  /\ v \notin known
  /\ Becomes([c \in DOMAIN roster |-> IF u \in roster[c] THEN (roster[c] \ {u}) \cup {v}
                                                         ELSE roster[c]])

(* A new session starts with nothing.                                       *)
Reset == Becomes([c \in {} |-> {}])

Next ==
  \/ \E c \in Channel : Open(c)
  \/ \E c \in DOMAIN roster : Close(c) \/ Forget(c)
  \/ \E c \in DOMAIN roster, u \in User : Enter(c, u) \/ Leave(c, u)
  \/ \E u \in User : Quit(u)
  \/ \E u, v \in User : Rename(u, v)
  \/ Reset

Spec == Init /\ [][Next]_vars

=============================================================================
