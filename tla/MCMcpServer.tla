------------------------------ MODULE MCMcpServer ------------------------------
(* The lines of a client: what the loop tells apart, and for every tool a   *)
(* call that follows its schema and one that does not.                      *)
EXTENDS McpServer

With(ids, method, tool, names, value) ==
    [ids |-> ids, method |-> method,
     params |-> [tool |-> tool, names |-> names, value |-> value]]
Of(ids, method, params) == With(ids, method, params, {}, "empty")
To(tool, names, value) == With(TRUE, "tools/call", tool, names, value)

MCLoop ==
    {Of(FALSE, "blank", "none"), Of(FALSE, "garbage", "none"), Of(TRUE, "batch", "none"),
     Of(TRUE, "initialize", "none"), Of(TRUE, "initialize", "odd"), Of(FALSE, "ping", "none"),
     Of(TRUE, "tools/list", "odd"), Of(FALSE, "notification", "none"),
     Of(TRUE, "unknown", "none"), Of(FALSE, "unknown", "none"), Of(TRUE, "odd", "none"),
     Of(TRUE, "tools/call", "none"), Of(TRUE, "tools/call", "odd")}

MCCalls ==
    {To("unhashable", {}, "known"), To("nosuch", {}, "known"),
     To("service_map", {}, "known"), To("service_map", {"service"}, "unknown"),
     To("credentials", {"topic"}, "known"), To("credentials", {"topic"}, "odd"),
     To("storage_map", {"bucket"}, "unknown"), To("storage_map", {"bucket"}, "odd"),
     To("runtime_matrix", {}, "known"), To("compute_limits", {"service"}, "known"),
     To("probe", {"target"}, "known"), To("probe", {"target"}, "empty"), To("probe", {}, "known"),
     To("mlflow_experiments", {}, "known"), To("ray_status", {}, "known"),
     To("wiki_list", {}, "known"), To("wiki_list", {"repo"}, "odd"),
     To("wiki_read", {"page"}, "known"), To("wiki_read", {"page", "repo"}, "unknown"),
     To("wiki_read", {"page", "repo"}, "known"),
     To("wiki_read", {"repo"}, "known"), To("wiki_search", {"query"}, "unknown"),
     To("wiki_search", {"query"}, "empty"), To("wiki_search", {"query", "repo"}, "unknown"),
     To("wiki_search", {"query"}, "odd")}

MCShapes == MCLoop \union MCCalls
=============================================================================
