-------------------------- MODULE MCScaffolderSteps --------------------------
(* ScaffolderSteps on a small workspace. *)
EXTENDS ScaffolderSteps, TLC

Entry(n, t, h, m) ==
  [name |-> n, type |-> t, hidden |-> h, matches |-> m,
   inside |-> n \in {"src/a.ts", "src/b.png"}]
MCWorkspace ==
  {Entry("src", "directory", FALSE, TRUE), Entry("src/a.ts", "file", FALSE, TRUE),
   Entry("src/b.png", "file", FALSE, TRUE), Entry("README.md", "file", FALSE, FALSE),
   Entry(".env", "file", TRUE, TRUE), Entry("latest", "link", FALSE, TRUE)}
=============================================================================
