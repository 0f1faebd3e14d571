---------------------------- MODULE MessageUnions ----------------------------
(***************************************************************************)
(* The unions of the message types of src/src/mcpcommon.  QMcpServerResult *)
(* and QMcpServerNotification declare no variant as a property.            *)
(***************************************************************************)
EXTENDS Gadget

QMcpMessageContentBase ==
  FindBy("mediaType", Variants(QMcpAnyOf, {"QMcpTextContent",
      "QMcpImageContent", "QMcpAudioContent"}))
QMcpExtendedMessageContent ==
  FindBy("linkType", Variants(QMcpMessageContentBase, {"QMcpEmbeddedResource",
      "QMcpResourceLink"}))
QMcpCallToolResultContent == QMcpExtendedMessageContent
QMcpClientNotification ==
  Variants(QMcpAnyOf, {"QMcpCancelledNotification",
      "QMcpInitializedNotification", "QMcpProgressNotification",
      "QMcpRootsListChangedNotification"})
QMcpClientRequest ==
  Variants(QMcpAnyOf, {"QMcpInitializeRequest", "QMcpPingRequest",
      "QMcpListResourcesRequest", "QMcpListResourceTemplatesRequest",
      "QMcpReadResourceRequest", "QMcpSubscribeRequest",
      "QMcpUnsubscribeRequest", "QMcpListPromptsRequest",
      "QMcpGetPromptRequest", "QMcpListToolsRequest", "QMcpCallToolRequest",
      "QMcpSetLevelRequest", "QMcpCompleteRequest"})
QMcpClientResult ==
  Variants(QMcpAnyOf, {"QMcpResult", "QMcpCreateMessageResult",
      "QMcpListRootsResult"})
QMcpCompleteRequestParamsRef ==
  Variants(QMcpAnyOf, {"QMcpPromptReference", "QMcpResourceReference"})
QMcpSamplingMessageContentBase ==
  FindBy("toolType", Variants(QMcpMessageContentBase, {"QMcpToolUseContent",
      "QMcpToolResultContent"}))
QMcpCreateMessageResultContent == QMcpSamplingMessageContentBase
QMcpEmbeddedResourceResource ==
  Variants(QMcpAnyOf, {"QMcpTextResourceContents", "QMcpBlobResourceContents"})
QMcpPrimitiveSchemaDefinition ==
  NamesFirst(FindBy("schemaType", Variants(QMcpAnyOf, {"QMcpStringSchema",
      "QMcpNumberSchema", "QMcpBooleanSchema", "QMcpEnumSchema",
      "QMcpUntitledSingleSelectEnumSchema",
      "QMcpTitledSingleSelectEnumSchema", "QMcpUntitledMultiSelectEnumSchema",
      "QMcpTitledMultiSelectEnumSchema"})))
QMcpPromptMessageContent == QMcpExtendedMessageContent
QMcpReadResourceResultContents ==
  Variants(QMcpAnyOf, {"QMcpTextResourceContents", "QMcpBlobResourceContents"})
QMcpSamplingMessageContent == QMcpSamplingMessageContentBase
QMcpServerNotification == QMcpAnyOf
QMcpServerRequest ==
  Variants(QMcpAnyOf, {"QMcpPingRequest", "QMcpCreateMessageRequest",
      "QMcpListRootsRequest"})
QMcpServerResult == QMcpAnyOf
=============================================================================
