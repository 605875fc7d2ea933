------------------------------- MODULE MCQuery -------------------------------
(***************************************************************************)
(* Cluster c1 has a role and a binding of it, a binding of a cluster role  *)
(* of the same name that is not there, and two objects.                    *)
(***************************************************************************)
EXTENDS Query

CONSTANTS c1, ns1, admin, b1, b2, k1, u1, x, y

RoleOfNamespace ==
    [cluster |-> c1, namespace |-> ns1, kind |-> "Role", name |-> admin]

BindingOfNamespace ==
    [cluster |-> c1, namespace |-> ns1, kind |-> "RoleBinding", name |-> b1,
     roleKind |-> "Role", roleName |-> admin]

ClusterBinding ==
    [cluster |-> c1, namespace |-> NoNamespace, kind |-> "ClusterRoleBinding",
     name |-> b2, roleKind |-> "ClusterRole", roleName |-> admin]

OneRole == {RoleOfNamespace}
TwoBindings == {BindingOfNamespace, ClusterBinding}

ObjectNamed(m) == [cluster |-> c1, namespace |-> ns1, kind |-> k1, name |-> m]
TwoObjects == {ObjectNamed(x), ObjectNamed(y)}
=============================================================================
