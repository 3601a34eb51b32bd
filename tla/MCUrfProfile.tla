----------------------------- MODULE MCUrfProfile -----------------------------
(* Matches that hold and that do not, of what the machine tells and does not, *)
(* and one without an operator.                                               *)
EXTENDS UrfProfile

Match(key, test, mode, tokens) ==
    [tag |-> "match", key |-> key, test |-> test, mode |-> mode, tokens |-> tokens]

MCElements ==
    {Match("sys_vendor", "contains", "ncase", << <<-1, 2>> >>),
     Match("product_name", "prefix", "outof", << <<>>, <<2>> >>),
     Match("product_name", "contains", "not", << <<2>> >>),
     Match("product_name", "none", "plain", << <<>> >>),
     [tag |-> "option", key |-> "key_control"],
     [tag |-> "option", key |-> "master_key"],
     [tag |-> "other"]}

MCMachines ==
    {NULL, [sys_vendor |-> <<1, -2, 3>>],
     [sys_vendor |-> <<3, 1>>, product_name |-> <<2, 1>>]}
=============================================================================
