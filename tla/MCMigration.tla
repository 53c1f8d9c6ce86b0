---------------------------- MODULE MCMigration ----------------------------
(* Two instances that start, crash and restart at will, pools of two        *)
(* sessions, two migration files.                                           *)
EXTENDS Migration
=============================================================================
