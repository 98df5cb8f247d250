--------------------------- MODULE AccountPromise ---------------------------
(***************************************************************************)
(* What the operator relies on, in terms of the two places an account is   *)
(* kept in: the settings, on disk and in the server's memory, that say     *)
(* whether a login is asked for, and the rows one could log in with        *)
(* (src/src/anthias_server/settings.py, lib/auth.py).  OperatorAccount     *)
(* says how the two change.                                                *)
(***************************************************************************)
VARIABLES
    conf,       \* anthias.conf: the settings in it
    mem,        \* AnthiasSettings, the server's dictionary
    users,      \* User rows in the order of their ids, all superusers
    migrated,   \* 0005 is recorded in django_migrations
    phase       \* of the container's start

\* Once the database is migrated, a login is asked for, now or after the next
\* start, only when there is an account to log in with: whatever fails, is cut
\* off or overtaken between the two stores.
NobodyIsLockedOut ==
    migrated => /\ conf["auth_backend"] => users # <<>>
                /\ phase = "serving" =>
                       (mem["auth_backend"] => users # <<>>)
=============================================================================
