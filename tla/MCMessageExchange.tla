------------------------- MODULE MCMessageExchange --------------------------
(***************************************************************************)
(* Instances of MessageExchange for TLC: the classes and the unions by     *)
(* name.                                                                   *)
(***************************************************************************)
EXTENDS MessageExchange, MessageTypes, MessageUnions

AllClasses ==
  [QMcpAnnotations |-> QMcpAnnotations,
   QMcpAudioContent |-> QMcpAudioContent,
   QMcpBlobResourceContents |-> QMcpBlobResourceContents,
   QMcpBooleanSchema |-> QMcpBooleanSchema,
   QMcpResult |-> QMcpResult,
   QMcpCacheableResult |-> QMcpCacheableResult,
   QMcpJSONRPCMessage |-> QMcpJSONRPCMessage,
   QMcpJSONRPCMessageWithId |-> QMcpJSONRPCMessageWithId,
   QMcpJSONRPCRequest |-> QMcpJSONRPCRequest,
   QMcpRequest |-> QMcpRequest,
   QMcpCallToolRequest |-> QMcpCallToolRequest,
   QMcpCallToolRequestParams |-> QMcpCallToolRequestParams,
   QMcpCallToolResult |-> QMcpCallToolResult,
   QMcpJSONRPCNotification |-> QMcpJSONRPCNotification,
   QMcpNotification |-> QMcpNotification,
   QMcpCancelledNotification |-> QMcpCancelledNotification,
   QMcpJSONRPCNotificationParams |-> QMcpJSONRPCNotificationParams,
   QMcpNotificationParams |-> QMcpNotificationParams,
   QMcpCancelledNotificationParams |-> QMcpCancelledNotificationParams,
   QMcpCancelTaskRequest |-> QMcpCancelTaskRequest,
   QMcpCancelTaskRequestParams |-> QMcpCancelTaskRequestParams,
   QMcpCancelTaskResult |-> QMcpCancelTaskResult,
   QMcpClientCapabilities |-> QMcpClientCapabilities,
   QMcpClientCapabilitiesElicitation |-> QMcpClientCapabilitiesElicitation,
   QMcpClientCapabilitiesExperimental |-> QMcpClientCapabilitiesExperimental,
   QMcpClientCapabilitiesRoots |-> QMcpClientCapabilitiesRoots,
   QMcpClientCapabilitiesSampling |-> QMcpClientCapabilitiesSampling,
   QMcpCompleteRequest |-> QMcpCompleteRequest,
   QMcpCompleteRequestParams |-> QMcpCompleteRequestParams,
   QMcpCompleteRequestParamsArgument |-> QMcpCompleteRequestParamsArgument,
   QMcpCompleteRequestParamsContext |-> QMcpCompleteRequestParamsContext,
   QMcpCompleteResult |-> QMcpCompleteResult,
   QMcpCompleteResultCompletion |-> QMcpCompleteResultCompletion,
   QMcpCreateMessageRequest |-> QMcpCreateMessageRequest,
   QMcpCreateMessageRequestParams |-> QMcpCreateMessageRequestParams,
   QMcpCreateMessageRequestParamsMetadata |-> QMcpCreateMessageRequestParamsMetadata,
   QMcpCreateMessageResult |-> QMcpCreateMessageResult,
   QMcpCreateTaskResult |-> QMcpCreateTaskResult,
   QMcpDiscoverRequest |-> QMcpDiscoverRequest,
   QMcpDiscoverResult |-> QMcpDiscoverResult,
   QMcpElicitationCompleteNotification |-> QMcpElicitationCompleteNotification,
   QMcpElicitationCompleteNotificationParams |-> QMcpElicitationCompleteNotificationParams,
   QMcpElicitRequest |-> QMcpElicitRequest,
   QMcpElicitRequestParams |-> QMcpElicitRequestParams,
   QMcpElicitRequestParamsRequestedSchema |-> QMcpElicitRequestParamsRequestedSchema,
   QMcpElicitResult |-> QMcpElicitResult,
   QMcpEmbeddedResource |-> QMcpEmbeddedResource,
   QMcpEmptyResult |-> QMcpEmptyResult,
   QMcpEnumSchema |-> QMcpEnumSchema,
   QMcpExtCancelTaskResult |-> QMcpExtCancelTaskResult,
   QMcpExtCreateTaskResult |-> QMcpExtCreateTaskResult,
   QMcpExtGetTaskResult |-> QMcpExtGetTaskResult,
   QMcpExtTask |-> QMcpExtTask,
   QMcpExtTaskStatusNotification |-> QMcpExtTaskStatusNotification,
   QMcpExtTaskStatusNotificationParams |-> QMcpExtTaskStatusNotificationParams,
   QMcpExtUpdateTaskRequest |-> QMcpExtUpdateTaskRequest,
   QMcpExtUpdateTaskRequestParams |-> QMcpExtUpdateTaskRequestParams,
   QMcpExtUpdateTaskResult |-> QMcpExtUpdateTaskResult,
   QMcpGetPromptRequest |-> QMcpGetPromptRequest,
   QMcpGetPromptRequestParams |-> QMcpGetPromptRequestParams,
   QMcpGetPromptResult |-> QMcpGetPromptResult,
   QMcpGetTaskPayloadRequest |-> QMcpGetTaskPayloadRequest,
   QMcpGetTaskPayloadRequestParams |-> QMcpGetTaskPayloadRequestParams,
   QMcpGetTaskPayloadResult |-> QMcpGetTaskPayloadResult,
   QMcpGetTaskRequest |-> QMcpGetTaskRequest,
   QMcpGetTaskRequestParams |-> QMcpGetTaskRequestParams,
   QMcpGetTaskResult |-> QMcpGetTaskResult,
   QMcpIcon |-> QMcpIcon,
   QMcpImageContent |-> QMcpImageContent,
   QMcpImplementation |-> QMcpImplementation,
   QMcpInitializedNotification |-> QMcpInitializedNotification,
   QMcpInitializedNotificationParams |-> QMcpInitializedNotificationParams,
   QMcpInitializedNotificationParamsMeta |-> QMcpInitializedNotificationParamsMeta,
   QMcpInitializeRequest |-> QMcpInitializeRequest,
   QMcpInitializeRequestParams |-> QMcpInitializeRequestParams,
   QMcpInitializeResult |-> QMcpInitializeResult,
   QMcpInputRequiredResult |-> QMcpInputRequiredResult,
   QMcpInputResponseRequestParams |-> QMcpInputResponseRequestParams,
   QMcpJSONRPCBatchRequest |-> QMcpJSONRPCBatchRequest,
   QMcpJSONRPCBatchResponse |-> QMcpJSONRPCBatchResponse,
   QMcpJSONRPCBatchErrorResponse |-> QMcpJSONRPCBatchErrorResponse,
   QMcpJSONRPCError |-> QMcpJSONRPCError,
   QMcpJSONRPCErrorError |-> QMcpJSONRPCErrorError,
   QMcpJSONRPCNotificationParamsMeta |-> QMcpJSONRPCNotificationParamsMeta,
   QMcpJSONRPCRequestParams |-> QMcpJSONRPCRequestParams,
   QMcpJSONRPCRequestParamsMeta |-> QMcpJSONRPCRequestParamsMeta,
   QMcpJSONRPCResponse |-> QMcpJSONRPCResponse,
   QMcpListPromptsRequest |-> QMcpListPromptsRequest,
   QMcpListPromptsRequestParams |-> QMcpListPromptsRequestParams,
   QMcpListPromptsResult |-> QMcpListPromptsResult,
   QMcpListResourcesRequest |-> QMcpListResourcesRequest,
   QMcpListResourcesRequestParams |-> QMcpListResourcesRequestParams,
   QMcpListResourcesResult |-> QMcpListResourcesResult,
   QMcpListResourceTemplatesRequest |-> QMcpListResourceTemplatesRequest,
   QMcpListResourceTemplatesRequestParams |-> QMcpListResourceTemplatesRequestParams,
   QMcpListResourceTemplatesResult |-> QMcpListResourceTemplatesResult,
   QMcpListRootsRequest |-> QMcpListRootsRequest,
   QMcpListRootsRequestParamsMeta |-> QMcpListRootsRequestParamsMeta,
   QMcpListRootsResult |-> QMcpListRootsResult,
   QMcpListTasksRequest |-> QMcpListTasksRequest,
   QMcpListTasksResult |-> QMcpListTasksResult,
   QMcpListToolsRequest |-> QMcpListToolsRequest,
   QMcpListToolsRequestParams |-> QMcpListToolsRequestParams,
   QMcpListToolsResult |-> QMcpListToolsResult,
   QMcpLoggingMessageNotification |-> QMcpLoggingMessageNotification,
   QMcpLoggingMessageNotificationParams |-> QMcpLoggingMessageNotificationParams,
   QMcpModelHint |-> QMcpModelHint,
   QMcpModelPreferences |-> QMcpModelPreferences,
   QMcpNotificationParamsMeta |-> QMcpNotificationParamsMeta,
   QMcpNumberSchema |-> QMcpNumberSchema,
   QMcpPaginatedRequest |-> QMcpPaginatedRequest,
   QMcpPaginatedRequestParams |-> QMcpPaginatedRequestParams,
   QMcpPaginatedResult |-> QMcpPaginatedResult,
   QMcpPingRequest |-> QMcpPingRequest,
   QMcpPingRequestParams |-> QMcpPingRequestParams,
   QMcpPingRequestParamsMeta |-> QMcpPingRequestParamsMeta,
   QMcpProgressNotification |-> QMcpProgressNotification,
   QMcpProgressNotificationParams |-> QMcpProgressNotificationParams,
   QMcpPrompt |-> QMcpPrompt,
   QMcpPromptArgument |-> QMcpPromptArgument,
   QMcpPromptListChangedNotification |-> QMcpPromptListChangedNotification,
   QMcpPromptListChangedNotificationParamsMeta |-> QMcpPromptListChangedNotificationParamsMeta,
   QMcpPromptMessage |-> QMcpPromptMessage,
   QMcpPromptReference |-> QMcpPromptReference,
   QMcpReadResourceRequest |-> QMcpReadResourceRequest,
   QMcpReadResourceRequestParams |-> QMcpReadResourceRequestParams,
   QMcpReadResourceResult |-> QMcpReadResourceResult,
   QMcpRelatedTaskMetadata |-> QMcpRelatedTaskMetadata,
   QMcpRequestParams |-> QMcpRequestParams,
   QMcpRequestParamsMeta |-> QMcpRequestParamsMeta,
   QMcpResource |-> QMcpResource,
   QMcpResourceContents |-> QMcpResourceContents,
   QMcpResourceLink |-> QMcpResourceLink,
   QMcpResourceListChangedNotification |-> QMcpResourceListChangedNotification,
   QMcpResourceListChangedNotificationParamsMeta |-> QMcpResourceListChangedNotificationParamsMeta,
   QMcpResourceReference |-> QMcpResourceReference,
   QMcpResourceTemplate |-> QMcpResourceTemplate,
   QMcpResourceUpdatedNotification |-> QMcpResourceUpdatedNotification,
   QMcpResourceUpdatedNotificationParams |-> QMcpResourceUpdatedNotificationParams,
   QMcpResultMeta |-> QMcpResultMeta,
   QMcpRoot |-> QMcpRoot,
   QMcpRootsListChangedNotification |-> QMcpRootsListChangedNotification,
   QMcpRootsListChangedNotificationParams |-> QMcpRootsListChangedNotificationParams,
   QMcpRootsListChangedNotificationParamsMeta |-> QMcpRootsListChangedNotificationParamsMeta,
   QMcpSamplingMessage |-> QMcpSamplingMessage,
   QMcpServerCapabilities |-> QMcpServerCapabilities,
   QMcpServerCapabilitiesExperimental |-> QMcpServerCapabilitiesExperimental,
   QMcpServerCapabilitiesLogging |-> QMcpServerCapabilitiesLogging,
   QMcpServerCapabilitiesPrompts |-> QMcpServerCapabilitiesPrompts,
   QMcpServerCapabilitiesResources |-> QMcpServerCapabilitiesResources,
   QMcpServerCapabilitiesTools |-> QMcpServerCapabilitiesTools,
   QMcpSetLevelRequest |-> QMcpSetLevelRequest,
   QMcpSetLevelRequestParams |-> QMcpSetLevelRequestParams,
   QMcpStringSchema |-> QMcpStringSchema,
   QMcpSubscribeRequest |-> QMcpSubscribeRequest,
   QMcpSubscribeRequestParams |-> QMcpSubscribeRequestParams,
   QMcpSubscriptionFilter |-> QMcpSubscriptionFilter,
   QMcpSubscriptionsAcknowledgedNotification |-> QMcpSubscriptionsAcknowledgedNotification,
   QMcpSubscriptionsAcknowledgedNotificationParams |-> QMcpSubscriptionsAcknowledgedNotificationParams,
   QMcpSubscriptionsListenRequest |-> QMcpSubscriptionsListenRequest,
   QMcpSubscriptionsListenRequestParams |-> QMcpSubscriptionsListenRequestParams,
   QMcpSubscriptionsListenResult |-> QMcpSubscriptionsListenResult,
   QMcpTask |-> QMcpTask,
   QMcpTaskMetadata |-> QMcpTaskMetadata,
   QMcpTasksExtensionCapability |-> QMcpTasksExtensionCapability,
   QMcpTaskStatusNotification |-> QMcpTaskStatusNotification,
   QMcpTaskStatusNotificationParams |-> QMcpTaskStatusNotificationParams,
   QMcpTextContent |-> QMcpTextContent,
   QMcpTextResourceContents |-> QMcpTextResourceContents,
   QMcpTitledMultiSelectEnumSchema |-> QMcpTitledMultiSelectEnumSchema,
   QMcpTitledMultiSelectEnumSchemaItems |-> QMcpTitledMultiSelectEnumSchemaItems,
   QMcpTitledMultiSelectEnumSchemaItemsAnyOf |-> QMcpTitledMultiSelectEnumSchemaItemsAnyOf,
   QMcpTitledSingleSelectEnumSchema |-> QMcpTitledSingleSelectEnumSchema,
   QMcpTitledSingleSelectEnumSchemaOneOf |-> QMcpTitledSingleSelectEnumSchemaOneOf,
   QMcpTool |-> QMcpTool,
   QMcpToolChoice |-> QMcpToolChoice,
   QMcpToolInputSchema |-> QMcpToolInputSchema,
   QMcpToolListChangedNotification |-> QMcpToolListChangedNotification,
   QMcpToolListChangedNotificationParamsMeta |-> QMcpToolListChangedNotificationParamsMeta,
   QMcpToolOutputSchema |-> QMcpToolOutputSchema,
   QMcpToolResultContent |-> QMcpToolResultContent,
   QMcpToolUseContent |-> QMcpToolUseContent,
   QMcpUnsubscribeRequest |-> QMcpUnsubscribeRequest,
   QMcpUnsubscribeRequestParams |-> QMcpUnsubscribeRequestParams,
   QMcpUntitledMultiSelectEnumSchema |-> QMcpUntitledMultiSelectEnumSchema,
   QMcpUntitledMultiSelectEnumSchemaItems |-> QMcpUntitledMultiSelectEnumSchemaItems,
   QMcpUntitledSingleSelectEnumSchema |-> QMcpUntitledSingleSelectEnumSchema]

(* The unions src/ builds or reads.  It dispatches requests, notifications  *)
(* and results by method name, so QMcpClientRequest and its like, whose    *)
(* variants have the same properties, are not among them.                  *)
ContentUnions ==
  [QMcpCallToolResultContent |-> QMcpCallToolResultContent,
   QMcpCompleteRequestParamsRef |-> QMcpCompleteRequestParamsRef,
   QMcpCreateMessageResultContent |-> QMcpCreateMessageResultContent,
   QMcpEmbeddedResourceResource |-> QMcpEmbeddedResourceResource,
   QMcpPrimitiveSchemaDefinition |-> QMcpPrimitiveSchemaDefinition,
   QMcpPromptMessageContent |-> QMcpPromptMessageContent,
   QMcpReadResourceResultContents |-> QMcpReadResourceResultContents,
   QMcpSamplingMessageContent |-> QMcpSamplingMessageContent]
=============================================================================
