------------------------- MODULE MCAccountLearning -------------------------
(* AccountLearning with a writer, an eraser and a reader. *)
EXTENDS AccountLearning
MCOps == [c1 |-> {"save_context", "save"}, c2 |-> {"update_profile", "delete"},
          c3 |-> {"get_profile", "get_context"}]
MCPayloads == {{}, {"style"}, {"url"}}
=============================================================================
