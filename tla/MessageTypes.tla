---------------------------- MODULE MessageTypes -----------------------------
(***************************************************************************)
(* The message types of src/src/mcpcommon: one definition per class, the   *)
(* properties it declares, which of them are required, in which revision   *)
(* they exist and what they are called in JSON.  A request names itself by *)
(* the constant method its class returns; QMcpRequest and                  *)
(* QMcpNotification leave it to their subclasses.                          *)
(***************************************************************************)
EXTENDS Gadget

QMcpGadget == {}

QMcpAnnotations == Extend(QMcpGadget, Optional({"audience", "priority"}))
QMcpAudioContent ==
  Extend(QMcpGadget,
    Constant("type", "audio") \cup Required({"data"}) \cup RequiredMediaType
    \cup Optional({"annotations"})
    \cup Since(V2025_06_18, Optional({"_meta"})))
QMcpBlobResourceContents ==
  Extend(QMcpGadget,
    Required({"blob", "uri"}) \cup MediaType \cup Optional({"name"})
    \cup Since(V2025_06_18, Optional({"_meta"})))
QMcpBooleanSchema ==
  Extend(QMcpGadget,
    Constant("type", "boolean")
    \cup Key("default", Optional({"defaultValue"}))
    \cup Optional({"description", "title"}))
QMcpResult ==
  Extend(QMcpGadget,
    Optional({"_meta", "additionalProperties"})
    \cup Since(V2026_07_28, ResultType("complete")))
QMcpCacheableResult ==
  Extend(QMcpResult,
    Since(V2026_07_28, Assumed(Required({"cacheScope", "ttlMs"}))))
QMcpJSONRPCMessage == Extend(QMcpGadget, Constant("jsonrpc", "2.0"))
QMcpJSONRPCMessageWithId == Extend(QMcpJSONRPCMessage, Required({"id"}))
QMcpJSONRPCRequest ==
  Extend(QMcpJSONRPCMessageWithId,
    Constant("method", "method") \cup Optional({"params"}))
QMcpRequest == Extend(QMcpJSONRPCRequest, Optional({"params"}))
QMcpCallToolRequest ==
  Extend(QMcpRequest,
    Constant("method", "tools/call") \cup Required({"params"}))
QMcpCallToolRequestParams ==
  Extend(QMcpGadget,
    Required({"name"}) \cup Optional({"_meta", "arguments"}))
QMcpCallToolResult ==
  Extend(QMcpResult,
    Required({"content"}) \cup Optional({"isError"})
    \cup Since(V2025_06_18, Optional({"structuredContent"})))
QMcpJSONRPCNotification ==
  Extend(QMcpJSONRPCMessage,
    Constant("method", "method") \cup Optional({"params"}))
QMcpNotification == Extend(QMcpJSONRPCNotification, Optional({"params"}))
QMcpCancelledNotification ==
  Extend(QMcpNotification,
    Constant("method", "notifications/cancelled") \cup Required({"params"}))
QMcpJSONRPCNotificationParams ==
  Extend(QMcpGadget,
    Optional({"_meta", "additionalProperties"}))
QMcpNotificationParams ==
  Extend(QMcpJSONRPCNotificationParams,
    Optional({"_meta"}))
QMcpCancelledNotificationParams ==
  Extend(QMcpNotificationParams,
    Required({"requestId"}) \cup Optional({"reason"}))
QMcpCancelTaskRequest ==
  Extend(QMcpRequest,
    Constant("method", "tasks/cancel") \cup Required({"params"}))
QMcpCancelTaskRequestParams == Extend(QMcpGadget, Required({"taskId"}))
QMcpCancelTaskResult ==
  Extend(QMcpResult,
    Required({"createdAt", "lastUpdatedAt", "status", "taskId", "ttl"})
    \cup Optional({"pollInterval", "statusMessage"}))
QMcpClientCapabilities ==
  Extend(QMcpGadget,
    Optional({"experimental", "roots", "sampling"})
    \cup Since(V2025_06_18, Optional({"elicitation"}))
    \cup Since(V2026_07_28, Optional({"extensions"})))
QMcpClientCapabilitiesElicitation ==
  Extend(QMcpGadget,
    Optional({"additionalProperties"}))
QMcpClientCapabilitiesExperimental ==
  Extend(QMcpGadget,
    Optional({"additionalProperties"}))
QMcpClientCapabilitiesRoots == Extend(QMcpGadget, Optional({"listChanged"}))
QMcpClientCapabilitiesSampling ==
  Extend(QMcpGadget,
    Optional({"additionalProperties"}))
QMcpCompleteRequest ==
  Extend(QMcpRequest,
    Constant("method", "completion/complete") \cup Required({"params"}))
QMcpCompleteRequestParams ==
  Extend(QMcpGadget,
    Required({"argument", "ref"})
    \cup Since(V2025_06_18, Optional({"context"})))
QMcpCompleteRequestParamsArgument ==
  Extend(QMcpGadget,
    Required({"name", "value"}))
QMcpCompleteRequestParamsContext ==
  Extend(QMcpGadget,
    Optional({"arguments"}))
QMcpCompleteResult == Extend(QMcpResult, Required({"completion"}))
QMcpCompleteResultCompletion ==
  Extend(QMcpGadget,
    Required({"values"}) \cup Optional({"hasMore", "total"}))
QMcpCreateMessageRequest ==
  Extend(QMcpRequest,
    Constant("method", "sampling/createMessage") \cup Required({"params"}))
QMcpCreateMessageRequestParams ==
  Extend(QMcpGadget,
    Required({"maxTokens", "messages"})
    \cup Optional({"includeContext", "metadata", "modelPreferences",
        "stopSequences", "systemPrompt", "temperature"})
    \cup Since(V2025_11_25, Optional({"toolChoice", "tools"})))
QMcpCreateMessageRequestParamsMetadata ==
  Extend(QMcpGadget,
    Optional({"additionalProperties"}))
QMcpCreateMessageResult ==
  Extend(QMcpResult,
    Required({"content", "model", "role"}) \cup Optional({"stopReason"}))
QMcpCreateTaskResult == Extend(QMcpResult, Required({"task"}))
QMcpDiscoverRequest ==
  Extend(QMcpRequest,
    Constant("method", "server/discover") \cup Optional({"params"}))
QMcpDiscoverResult ==
  Extend(QMcpCacheableResult,
    Required({"capabilities", "supportedVersions"})
    \cup Optional({"instructions"}))
QMcpElicitationCompleteNotification ==
  Extend(QMcpNotification,
    Constant("method", "notifications/elicitation/complete")
    \cup Required({"params"}))
QMcpElicitationCompleteNotificationParams ==
  Extend(QMcpNotificationParams,
    Required({"elicitationId"}))
QMcpElicitRequest ==
  Extend(QMcpRequest,
    Constant("method", "elicitation/create") \cup Required({"params"}))
QMcpElicitRequestParams ==
  Extend(QMcpGadget,
    Required({"message"}) \cup FormOnly(Required({"requestedSchema"}))
    \cup Since(V2025_11_25, Optional({"elicitationId",
        "url"}) \cup OneOf("mode", {"form", "url"}, "form")))
QMcpElicitRequestParamsRequestedSchema ==
  Extend(QMcpGadget,
    Constant("type", "object") \cup Required({"properties"})
    \cup Optional({"required"}))
QMcpElicitResult ==
  Extend(QMcpResult,
    Required({"action"}) \cup Optional({"content"}))
QMcpEmbeddedResource ==
  Extend(QMcpGadget,
    Constant("type", "resource") \cup Required({"resource"})
    \cup Optional({"annotations"})
    \cup Since(V2025_06_18, Optional({"_meta"})))
QMcpEmptyResult == QMcpResult
QMcpEnumSchema ==
  Extend(QMcpGadget,
    Constant("type", "string")
    \cup Optional({"description", "enumNames", "title"})
    \cup Key("enum", Required({"enumValues"}))
    \cup Since(V2025_11_25, Key("default", Optional({"defaultValue"}))))
QMcpExtCancelTaskResult == QMcpResult
QMcpExtCreateTaskResult ==
  Extend(QMcpResult,
    Required({"createdAt", "lastUpdatedAt", "status", "taskId", "ttlMs"})
    \cup Optional({"pollIntervalMs", "statusMessage"})
    \cup Since(V2026_07_28, ResultType("task")))
QMcpExtGetTaskResult ==
  Extend(QMcpResult,
    Required({"createdAt", "lastUpdatedAt", "status", "taskId", "ttlMs"})
    \cup Optional({"error", "inputRequests", "pollIntervalMs", "result",
        "statusMessage"}))
QMcpExtTask ==
  Extend(QMcpGadget,
    Required({"createdAt", "lastUpdatedAt", "status", "taskId", "ttlMs"})
    \cup Optional({"pollIntervalMs", "statusMessage"}))
QMcpExtTaskStatusNotification ==
  Extend(QMcpNotification,
    Constant("method", "notifications/tasks") \cup Required({"params"}))
QMcpExtTaskStatusNotificationParams ==
  Extend(QMcpNotificationParams,
    Required({"createdAt", "lastUpdatedAt", "status", "taskId", "ttlMs"})
    \cup Optional({"error", "inputRequests", "pollIntervalMs", "result",
        "statusMessage"}))
QMcpExtUpdateTaskRequest ==
  Extend(QMcpRequest,
    Constant("method", "tasks/update") \cup Required({"params"}))
QMcpExtUpdateTaskRequestParams ==
  Extend(QMcpGadget,
    Required({"inputResponses", "taskId"}))
QMcpExtUpdateTaskResult == QMcpResult
QMcpGetPromptRequest ==
  Extend(QMcpRequest,
    Constant("method", "prompts/get") \cup Required({"params"}))
QMcpGetPromptRequestParams ==
  Extend(QMcpGadget,
    Required({"name"}) \cup Optional({"arguments"}))
QMcpGetPromptResult ==
  Extend(QMcpResult,
    Required({"messages"}) \cup Optional({"description"}))
QMcpGetTaskPayloadRequest ==
  Extend(QMcpRequest,
    Constant("method", "tasks/result") \cup Required({"params"}))
QMcpGetTaskPayloadRequestParams == Extend(QMcpGadget, Required({"taskId"}))
QMcpGetTaskPayloadResult == QMcpResult
QMcpGetTaskRequest ==
  Extend(QMcpRequest,
    Constant("method", "tasks/get") \cup Required({"params"}))
QMcpGetTaskRequestParams == Extend(QMcpGadget, Required({"taskId"}))
QMcpGetTaskResult ==
  Extend(QMcpResult,
    Required({"createdAt", "lastUpdatedAt", "status", "taskId", "ttl"})
    \cup Optional({"pollInterval", "statusMessage"}))
QMcpIcon ==
  Extend(QMcpGadget,
    Required({"src"}) \cup MediaType \cup Optional({"sizes", "theme"}))
QMcpImageContent ==
  Extend(QMcpGadget,
    Constant("type", "image") \cup Required({"data"})
    \cup Optional({"annotations"}) \cup RequiredMediaType
    \cup Since(V2025_06_18, Optional({"_meta"})))
QMcpImplementation ==
  Extend(QMcpGadget,
    Required({"name", "version"}) \cup Since(V2025_06_18, Optional({"title"}))
    \cup Since(V2025_11_25, Optional({"description", "icons", "websiteUrl"})))
QMcpInitializedNotification ==
  Extend(QMcpNotification,
    Constant("method", "notifications/initialized") \cup Optional({"params"}))
QMcpInitializedNotificationParams ==
  Extend(QMcpNotificationParams,
    Optional({"_meta"}))
QMcpInitializedNotificationParamsMeta ==
  Extend(QMcpGadget,
    Optional({"additionalProperties"}))
QMcpInitializeRequest ==
  Extend(QMcpRequest,
    Constant("method", "initialize") \cup Required({"params"}))
QMcpInitializeRequestParams ==
  Extend(QMcpGadget,
    Required({"capabilities", "clientInfo", "protocolVersion"}))
QMcpInitializeResult ==
  Extend(QMcpResult,
    Required({"capabilities", "protocolVersion", "serverInfo"})
    \cup Optional({"instructions"}))
QMcpInputRequiredResult ==
  Extend(QMcpResult,
    Optional({"inputRequests", "requestState"})
    \cup Since(V2026_07_28, ResultType("input_required")))
QMcpInputResponseRequestParams ==
  Extend(QMcpGadget,
    Optional({"inputResponses", "requestState"}))
QMcpJSONRPCBatchRequest == Extend(QMcpJSONRPCMessage, Required({"requests"}))
QMcpJSONRPCBatchResponse ==
  Extend(QMcpJSONRPCMessage,
    Required({"responses"}))
QMcpJSONRPCBatchErrorResponse ==
  Extend(QMcpJSONRPCMessage,
    Required({"errors"}))
QMcpJSONRPCError == Extend(QMcpJSONRPCMessageWithId, Required({"error"}))
QMcpJSONRPCErrorError ==
  Extend(QMcpGadget,
    Required({"code", "message"}) \cup Optional({"data"}))
QMcpJSONRPCNotificationParamsMeta ==
  Extend(QMcpGadget,
    Optional({"additionalProperties"}))
QMcpJSONRPCRequestParams == Extend(QMcpGadget, Optional({"_meta"}))
QMcpJSONRPCRequestParamsMeta ==
  Extend(QMcpGadget,
    Optional({"progressToken"}))
QMcpJSONRPCResponse == Extend(QMcpJSONRPCMessageWithId, Required({"result"}))
QMcpListPromptsRequest ==
  Extend(QMcpRequest,
    Constant("method", "prompts/list") \cup Optional({"params"}))
QMcpListPromptsRequestParams == Extend(QMcpGadget, Optional({"cursor"}))
QMcpListPromptsResult ==
  Extend(QMcpCacheableResult,
    Required({"prompts"}) \cup Optional({"nextCursor"}))
QMcpListResourcesRequest ==
  Extend(QMcpRequest,
    Constant("method", "resources/list") \cup Optional({"params"}))
QMcpListResourcesRequestParams == Extend(QMcpGadget, Optional({"cursor"}))
QMcpListResourcesResult ==
  Extend(QMcpCacheableResult,
    Required({"resources"}) \cup Optional({"nextCursor"}))
QMcpListResourceTemplatesRequest ==
  Extend(QMcpRequest,
    Constant("method", "resources/templates/list") \cup Optional({"params"}))
QMcpListResourceTemplatesRequestParams ==
  Extend(QMcpGadget,
    Optional({"cursor"}))
QMcpListResourceTemplatesResult ==
  Extend(QMcpCacheableResult,
    Required({"resourceTemplates"}) \cup Optional({"nextCursor"}))
QMcpListRootsRequest == Extend(QMcpRequest, Constant("method", "roots/list"))
QMcpListRootsRequestParamsMeta ==
  Extend(QMcpGadget,
    Optional({"progressToken"}))
QMcpListRootsResult == Extend(QMcpResult, Required({"roots"}))
QMcpListTasksRequest ==
  Extend(QMcpRequest,
    Constant("method", "tasks/list") \cup Optional({"params"}))
QMcpListTasksResult ==
  Extend(QMcpResult,
    Required({"tasks"}) \cup Optional({"nextCursor"}))
QMcpListToolsRequest ==
  Extend(QMcpRequest,
    Constant("method", "tools/list") \cup Optional({"params"}))
QMcpListToolsRequestParams == Extend(QMcpGadget, Optional({"cursor"}))
QMcpListToolsResult ==
  Extend(QMcpCacheableResult,
    Required({"tools"}) \cup Optional({"nextCursor"}))
QMcpLoggingMessageNotification ==
  Extend(QMcpNotification,
    Constant("method", "notifications/message") \cup Required({"params"}))
QMcpLoggingMessageNotificationParams ==
  Extend(QMcpNotificationParams,
    Required({"data", "level"}) \cup Optional({"logger"}))
QMcpModelHint == Extend(QMcpGadget, Optional({"name"}))
QMcpModelPreferences ==
  Extend(QMcpGadget,
    Optional({"costPriority", "hints", "intelligencePriority",
        "speedPriority"}))
QMcpNotificationParamsMeta ==
  Extend(QMcpGadget,
    Optional({"additionalProperties"}))
QMcpNumberSchema ==
  Extend(QMcpGadget,
    Optional({"description", "maximum", "minimum", "title"})
    \cup RequiredOneOf("type", {"number", "integer"}, "number")
    \cup Since(V2025_11_25, Key("default", Optional({"defaultValue"}))))
QMcpPaginatedRequest ==
  Extend(QMcpRequest,
    Required({"method"}) \cup Optional({"params"}))
QMcpPaginatedRequestParams == Extend(QMcpGadget, Optional({"cursor"}))
QMcpPaginatedResult == Extend(QMcpResult, Optional({"nextCursor"}))
QMcpPingRequest ==
  Extend(QMcpRequest,
    Constant("method", "ping") \cup Optional({"params"}))
QMcpPingRequestParams ==
  Extend(QMcpGadget,
    Optional({"_meta", "additionalProperties"}))
QMcpPingRequestParamsMeta == Extend(QMcpGadget, Optional({"progressToken"}))
QMcpProgressNotification ==
  Extend(QMcpNotification,
    Constant("method", "notifications/progress") \cup Required({"params"}))
QMcpProgressNotificationParams ==
  Extend(QMcpNotificationParams,
    Required({"progress", "progressToken"}) \cup Optional({"total"}))
QMcpPrompt ==
  Extend(QMcpGadget,
    Required({"name"}) \cup Optional({"arguments", "description"})
    \cup Since(V2025_06_18, Optional({"title"}))
    \cup Since(V2025_11_25, Optional({"icons"})))
QMcpPromptArgument ==
  Extend(QMcpGadget,
    Required({"name"}) \cup Optional({"description", "required"})
    \cup Since(V2025_06_18, Optional({"title"})))
QMcpPromptListChangedNotification ==
  Extend(QMcpNotification,
    Constant("method", "notifications/prompts/list_changed"))
QMcpPromptListChangedNotificationParamsMeta ==
  Extend(QMcpGadget,
    Optional({"additionalProperties"}))
QMcpPromptMessage == Extend(QMcpGadget, Required({"content", "role"}))
QMcpPromptReference ==
  Extend(QMcpGadget,
    Constant("type", "ref/prompt") \cup Required({"name"}))
QMcpReadResourceRequest ==
  Extend(QMcpRequest,
    Constant("method", "resources/read") \cup Required({"params"}))
QMcpReadResourceRequestParams == Extend(QMcpGadget, Required({"uri"}))
QMcpReadResourceResult == Extend(QMcpCacheableResult, Required({"contents"}))
QMcpRelatedTaskMetadata == Extend(QMcpGadget, Required({"taskId"}))
QMcpRequestParams ==
  Extend(QMcpGadget,
    Optional({"_meta", "additionalProperties"}))
QMcpRequestParamsMeta == Extend(QMcpGadget, Optional({"progressToken"}))
QMcpResource ==
  Extend(QMcpGadget,
    Required({"name", "uri"})
    \cup Optional({"annotations", "description", "size"}) \cup MediaType
    \cup Since(V2025_06_18, Optional({"title"}))
    \cup Since(V2025_11_25, Optional({"icons"})))
QMcpResourceContents ==
  Extend(QMcpGadget,
    Required({"uri"}) \cup MediaType
    \cup Since(V2025_06_18, Optional({"_meta"})))
QMcpResourceLink ==
  Extend(QMcpGadget,
    Constant("type", "resource_link") \cup Required({"name", "uri"})
    \cup Optional({"annotations", "description", "size"}) \cup MediaType
    \cup Since(V2025_06_18, Optional({"_meta", "title"})))
QMcpResourceListChangedNotification ==
  Extend(QMcpNotification,
    Constant("method", "notifications/resources/list_changed"))
QMcpResourceListChangedNotificationParamsMeta ==
  Extend(QMcpGadget,
    Optional({"additionalProperties"}))
QMcpResourceReference ==
  Extend(QMcpGadget,
    Constant("type", "ref/resource") \cup Required({"uri"}))
QMcpResourceTemplate ==
  Extend(QMcpGadget,
    Required({"name", "uriTemplate"})
    \cup Optional({"annotations", "description"}) \cup MediaType
    \cup Since(V2025_06_18, Optional({"title"}))
    \cup Since(V2025_11_25, Optional({"icons"})))
QMcpResourceUpdatedNotification ==
  Extend(QMcpNotification,
    Constant("method", "notifications/resources/updated")
    \cup Required({"params"}))
QMcpResourceUpdatedNotificationParams ==
  Extend(QMcpNotificationParams,
    Required({"uri"}))
QMcpResultMeta == Extend(QMcpGadget, Optional({"additionalProperties"}))
QMcpRoot ==
  Extend(QMcpGadget,
    Required({"uri"}) \cup Optional({"name"})
    \cup Since(V2025_06_18, Optional({"_meta"})))
QMcpRootsListChangedNotification ==
  Extend(QMcpNotification,
    Constant("method", "notifications/roots/list_changed"))
QMcpRootsListChangedNotificationParams ==
  Extend(QMcpNotificationParams,
    Optional({"_meta"}))
QMcpRootsListChangedNotificationParamsMeta ==
  Extend(QMcpGadget,
    Optional({"additionalProperties"}))
QMcpSamplingMessage == Extend(QMcpGadget, Required({"content", "role"}))
QMcpServerCapabilities ==
  Extend(QMcpGadget,
    Optional({"experimental", "logging", "prompts", "resources", "tools"})
    \cup Since(V2026_07_28, Optional({"extensions"})))
QMcpServerCapabilitiesExperimental ==
  Extend(QMcpGadget,
    Optional({"additionalProperties"}))
QMcpServerCapabilitiesLogging ==
  Extend(QMcpGadget,
    Optional({"additionalProperties"}))
QMcpServerCapabilitiesPrompts == Extend(QMcpGadget, Optional({"listChanged"}))
QMcpServerCapabilitiesResources ==
  Extend(QMcpGadget,
    Optional({"listChanged", "subscribe"}))
QMcpServerCapabilitiesTools == Extend(QMcpGadget, Optional({"listChanged"}))
QMcpSetLevelRequest ==
  Extend(QMcpRequest,
    Constant("method", "logging/setLevel") \cup Required({"params"}))
QMcpSetLevelRequestParams == Extend(QMcpGadget, Required({"level"}))
QMcpStringSchema ==
  Extend(QMcpGadget,
    Constant("type", "string")
    \cup Optional({"description", "format", "maxLength", "minLength",
        "title"})
    \cup Since(V2025_11_25, Key("default", Optional({"defaultValue"}))))
QMcpSubscribeRequest ==
  Extend(QMcpRequest,
    Constant("method", "resources/subscribe") \cup Required({"params"}))
QMcpSubscribeRequestParams == Extend(QMcpGadget, Required({"uri"}))
QMcpSubscriptionFilter ==
  Extend(QMcpGadget,
    Optional({"toolsListChanged", "promptsListChanged",
        "resourcesListChanged", "resourceSubscriptions"}))
QMcpSubscriptionsAcknowledgedNotification ==
  Extend(QMcpNotification,
    Constant("method", "notifications/subscriptions/acknowledged")
    \cup Required({"params"}))
QMcpSubscriptionsAcknowledgedNotificationParams ==
  Extend(QMcpNotificationParams,
    Required({"notifications"}))
QMcpSubscriptionsListenRequest ==
  Extend(QMcpRequest,
    Constant("method", "subscriptions/listen") \cup Required({"params"}))
QMcpSubscriptionsListenRequestParams ==
  Extend(QMcpGadget,
    Required({"notifications"}))
QMcpSubscriptionsListenResult == QMcpResult
QMcpTask ==
  Extend(QMcpGadget,
    Required({"createdAt", "lastUpdatedAt", "status", "taskId", "ttl"})
    \cup Optional({"pollInterval", "statusMessage"}))
QMcpTaskMetadata == Extend(QMcpGadget, Optional({"ttl"}))
QMcpTasksExtensionCapability == QMcpGadget
QMcpTaskStatusNotification ==
  Extend(QMcpNotification,
    Constant("method", "notifications/tasks/status")
    \cup Required({"params"}))
QMcpTaskStatusNotificationParams ==
  Extend(QMcpNotificationParams,
    Required({"createdAt", "lastUpdatedAt", "status", "taskId", "ttl"})
    \cup Optional({"pollInterval", "statusMessage"}))
QMcpTextContent ==
  Extend(QMcpGadget,
    Constant("type", "text") \cup Required({"text"})
    \cup Optional({"annotations"})
    \cup Since(V2025_06_18, Optional({"_meta"})))
QMcpTextResourceContents ==
  Extend(QMcpGadget,
    Required({"text", "uri"}) \cup MediaType \cup Optional({"name"})
    \cup Since(V2025_06_18, Optional({"_meta"})))
QMcpTitledMultiSelectEnumSchema ==
  Extend(QMcpGadget,
    Constant("type", "array") \cup Key("default", Optional({"defaultValue"}))
    \cup Optional({"description", "maxItems", "minItems", "title"})
    \cup RequiredOneOf("items", {"anyOf"}, "anyOf"))
QMcpTitledMultiSelectEnumSchemaItems ==
  Extend(QMcpGadget,
    Required({"anyOf"}))
QMcpTitledMultiSelectEnumSchemaItemsAnyOf ==
  Extend(QMcpGadget,
    Required({"title"}) \cup Key("const", Required({"constValue"})))
QMcpTitledSingleSelectEnumSchema ==
  Extend(QMcpGadget,
    Constant("type", "string") \cup Required({"oneOf"})
    \cup Key("default", Optional({"defaultValue"}))
    \cup Optional({"description", "title"}))
QMcpTitledSingleSelectEnumSchemaOneOf ==
  Extend(QMcpGadget,
    Required({"title"}) \cup Key("const", Required({"constValue"})))
QMcpTool ==
  Extend(QMcpGadget,
    Required({"inputSchema", "name"}) \cup Optional({"description"})
    \cup Since(V2025_06_18, Optional({"outputSchema", "title"}))
    \cup Since(V2025_11_25, Optional({"icons"})))
QMcpToolChoice == Extend(QMcpGadget, Optional({"mode"}))
QMcpToolInputSchema ==
  Extend(QMcpGadget,
    Constant("type", "object") \cup Optional({"properties", "required"}))
QMcpToolListChangedNotification ==
  Extend(QMcpNotification,
    Constant("method", "notifications/tools/list_changed"))
QMcpToolListChangedNotificationParamsMeta ==
  Extend(QMcpGadget,
    Optional({"additionalProperties"}))
QMcpToolOutputSchema ==
  Extend(QMcpGadget,
    Constant("type", "object") \cup Optional({"properties", "required"}))
QMcpToolResultContent ==
  Extend(QMcpGadget,
    Constant("type", "tool_result") \cup Required({"toolUseId", "content"})
    \cup Optional({"_meta", "structuredContent", "isError"}))
QMcpToolUseContent ==
  Extend(QMcpGadget,
    Constant("type", "tool_use") \cup Required({"id", "input", "name"})
    \cup Optional({"_meta"}))
QMcpUnsubscribeRequest ==
  Extend(QMcpRequest,
    Constant("method", "resources/unsubscribe") \cup Required({"params"}))
QMcpUnsubscribeRequestParams == Extend(QMcpGadget, Required({"uri"}))
QMcpUntitledMultiSelectEnumSchema ==
  Extend(QMcpGadget,
    Constant("type", "array") \cup Key("default", Optional({"defaultValue"}))
    \cup Optional({"description", "maxItems", "minItems", "title"})
    \cup RequiredOneOf("items", {"enum"}, "enum"))
QMcpUntitledMultiSelectEnumSchemaItems ==
  Extend(QMcpGadget,
    Constant("type", "string") \cup Key("enum", Required({"enumValues"})))
QMcpUntitledSingleSelectEnumSchema ==
  Extend(QMcpGadget,
    Constant("type", "string") \cup Key("default", Optional({"defaultValue"}))
    \cup Optional({"description", "title"})
    \cup Key("enum", Required({"enumValues"})))
=============================================================================
