---------------------------- MODULE MCHeadWindow ----------------------------
(* The window of a small station: three hours of context, a week of one hour    *)
(* and a month of two.                                                          *)
EXTENDS HeadWindow

\* The ground pod with the gauge and the IMU, the others, and the context service.
SourceOfDef ==
    [p \in {"P1", "P2", "P3", "P11", "P12", "P13", "P14", "P15", "P18", "P19",
            "P42", "P43", "P44", "P47"} |->
        CASE p \in {"P11", "P12", "P42", "P43", "P44"} -> "rain"
          [] p = "P47" -> "context"
          [] OTHER -> "met"]

\* A site without bulk density or contributing area, and one without texture.
StaticSitesDef == {{"P70", "P71", "P73", "S30"}, {"P74", "S30", "S33"}}
=============================================================================
