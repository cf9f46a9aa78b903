---------------------------- MODULE MCThreadPool ----------------------------
(* Two clients and one worker.  The jobs of a client, a and d, have jobs of  *)
(* their own, of both kinds, and some end with an exception.                 *)
EXTENDS ThreadPool

Scripts == [x \in Client \cup Job |->
               CASE x = "c1" -> <<"a", "b", "wait", "l2", "wait">>
                 [] x = "c2" -> <<"d", "e", "wait">>
                 [] x = "a"  -> <<"l1", "wait", "k">>
                 [] x = "d"  -> <<"k2", "l3", "wait">>
                 [] OTHER    -> <<>>]
=============================================================================
