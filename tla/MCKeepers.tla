------------------------------ MODULE MCKeepers ------------------------------
(***************************************************************************)
(* What the gateway and its companions keep beside the requests: the usage  *)
(* ledger, what the audit layer captures, correlates, pulls in and pushes   *)
(* out, and the services it starts.  The parts share no state, so a         *)
(* behaviour is of one of them and the others stay as they began; what      *)
(* those may begin in is pinned to one value.                               *)
(***************************************************************************)
EXTENDS VendorPull, Grc, UsageLedger, Capture, Embedded, Collector, Correlation,
        Reviews

VARIABLE part

MCConnectors ==
  {openaiPlatform, chatgptEnterprise, anthropicCompliance, cursorAudit, githubCopilot,
   googleGemini, microsoftCopilot, microsoftCopilotChat, anthropicAdmin}

(* All of the trust; torn writes; a --seal killed half way and deletions;  *)
(* and nothing at all.                                                     *)
MCTrusts == {Environment, Environment \ {"whole writes"}, {"whole writes", "gateway stopped"}, {}}

MCProfiles == {<<"a", "b">>}

keepersVars ==
  <<part, vendorVars, grcVars, ledgerVars, captureVars, embeddedVars,
    collectorVars, correlationVars, reviewsVars>>

KeepersInit ==
  /\ part \in {"vendor", "grc", "ledger", "proxy", "hooks", "services",
              "collector", "correlation", "reviews"}
  /\ VendorInit /\ GrcInit /\ LedgerInit /\ CaptureInit /\ EmbeddedInit
  /\ CollectorInit /\ CorrelationInit /\ ReviewsInit
  /\ part # "vendor" => connector = openaiPlatform
  /\ part # "grc" => platform = "vanta" /\ config = {"tests"}
  /\ part # "ledger" => trusted = Environment
  /\ part = "proxy" => auditing /\ ruleModes.request # "ask" /\ ruleModes.result = ruleModes.request
  /\ part \notin {"proxy", "hooks"} => auditing /\ ruleModes = [request |-> "flag", result |-> "flag"]
  /\ part # "collector" => source.kind = "sysmon" /\ logFile.lines = <<>>
  /\ part # "reviews" => auditOn

(* One part at a time.                                                     *)
KeepersNext ==
  \/ /\ part = "vendor" /\ VendorNext
     /\ UNCHANGED <<part, grcVars, ledgerVars, captureVars, embeddedVars,
                    collectorVars, correlationVars, reviewsVars>>
  \/ /\ part = "grc" /\ GrcNext
     /\ UNCHANGED <<part, vendorVars, ledgerVars, captureVars, embeddedVars,
                    collectorVars, correlationVars, reviewsVars>>
  \/ /\ part = "ledger" /\ LedgerNext
     /\ UNCHANGED <<part, vendorVars, grcVars, captureVars, embeddedVars,
                    collectorVars, correlationVars, reviewsVars>>
  \/ /\ part = "proxy" /\ ProxyNext
     /\ UNCHANGED <<part, vendorVars, grcVars, ledgerVars, embeddedVars,
                    collectorVars, correlationVars, reviewsVars>>
  \/ /\ part = "hooks" /\ HookNext
     /\ UNCHANGED <<part, vendorVars, grcVars, ledgerVars, embeddedVars,
                    collectorVars, correlationVars, reviewsVars>>
  \/ /\ part = "services" /\ EmbeddedNext
     /\ UNCHANGED <<part, vendorVars, grcVars, ledgerVars, captureVars,
                    collectorVars, correlationVars, reviewsVars>>
  \/ /\ part = "collector" /\ CollectorNext
     /\ UNCHANGED <<part, vendorVars, grcVars, ledgerVars, captureVars, embeddedVars,
                    correlationVars, reviewsVars>>
  \/ /\ part = "correlation" /\ CorrelationNext
     /\ UNCHANGED <<part, vendorVars, grcVars, ledgerVars, captureVars, embeddedVars,
                    collectorVars, reviewsVars>>
  \/ /\ part = "reviews" /\ ReviewsNext
     /\ UNCHANGED <<part, vendorVars, grcVars, ledgerVars, captureVars, embeddedVars,
                    collectorVars, correlationVars>>

KeepersSpec == KeepersInit /\ [][KeepersNext]_keepersVars
==============================================================================
