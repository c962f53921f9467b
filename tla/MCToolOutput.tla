---------------------------- MODULE MCToolOutput ----------------------------
(***************************************************************************)
(* Two runs after an earlier one, by each adapter.  The API answers with   *)
(* three pages, a cycle, two pages of which the second has a sequel that   *)
(* SecureScore does not allow, a link to another origin, or one page more  *)
(* than the limit; the second fetch of SecureScore starts at page 2.       *)
(***************************************************************************)
EXTENDS ToolOutput

MCTools == {"ScubaGear", "Monkey365", "Maester", "M365-Assess", "Prowler",
            "AzureAdvisor", "SecureScore"}

MCPages == 1..4
MCServers == { <<3, 0, 4, 0>>, <<3, 0, 1, 0>>, <<3, 4, 0, 0>>, <<3, 0, 99, 0>>,
               <<3, 0, 4, 2>> }

MCPolicy == [versions |-> {1, 2}, hashes |-> {"h1", "h2"}, fallback |-> FALSE]
Module(v, h) == [version |-> v, hash |-> h, signed |-> TRUE, supported |-> TRUE]
MCCandidates == { Module(1, "h1"), Module(2, "h2"), Module(3, "h1"), Module(1, "h3"),
                  [Module(2, "h2") EXCEPT !.signed = FALSE],
                  [Module(1, "h1") EXCEPT !.supported = FALSE] }
MCOverrides == { NoOverride, [pin |-> 3, hashes |-> {}],
                 [pin |-> NoPin, hashes |-> {"h3"}], [pin |-> 2, hashes |-> {"h2"}] }
=============================================================================
