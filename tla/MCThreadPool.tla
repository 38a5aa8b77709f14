---------------------------- MODULE MCThreadPool ----------------------------
(***************************************************************************)
(* Small instances of ThreadPool.  In ThreadPool_pool.cfg two workers and  *)
(* one client share three jobs: a job can find both slots full and run     *)
(* inside add_task, two workers can sleep while one signal comes.  In      *)
(* ThreadPool_clients.cfg two clients compete for the only slot, jobs are  *)
(* nested three deep, and one client destroys the pool when the other one  *)
(* has ended.                                                              *)
(***************************************************************************)
EXTENDS ThreadPool
=============================================================================
