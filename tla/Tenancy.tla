------------------------------ MODULE Tenancy -------------------------------
(***************************************************************************)
(* What the two registries promise a company together.  They are written   *)
(* by different handlers and share no table.                               *)
(***************************************************************************)
EXTENDS OrgRegistry, TankRegistry

\* What a handler writes belongs to the company of its caller: rows of the organisation
\* (stations.py:24 and :130) and tanks bound to a gateway (iot_gateways.py:187).
WritesStayHome == RowsStayHome /\ BindingsStayHome
=============================================================================
